---- MODULE Spec2Model ----
(***************************************************************************)
(* Model of labslack's MessageRelay (src/labslack/relay/message_relay.py): *)
(* relay_dm / relay_webhook and the retry loop _send_message_with_retry,   *)
(* together with the three labelled counters the relay reports into.       *)
(*                                                                         *)
(* One relay call is one coroutine.  It runs without interruption between  *)
(* its suspension points, which are the await on chat_postMessage and the  *)
(* await on asyncio.sleep; every action below is one such run.  A          *)
(* behaviour follows one relay call made on a freshly constructed relay,   *)
(* for every configuration and every answer of the remote API.             *)
(* Delays are kept in milliseconds so that retry_base_delay = 0.1 s and    *)
(* whole-second Retry-After values are both exact integers.                *)
(***************************************************************************)
EXTENDS Integers, Sequences, FiniteSets, TLC

\* ------------------------------------------------------------------ bounds
\* Largest configured max_retries explored (Config.max_retries is any int >= 0).
MaxRetriesCfg == 3

\* ---------------------------------------------------------------- constants
RETRYABLE_ERRORS ==
    {"rate_limited", "service_unavailable", "request_timeout", "internal_error"}

NON_RETRYABLE_ERRORS ==
    {"channel_not_found", "not_in_channel", "invalid_auth", "token_revoked",
     "account_inactive", "missing_scope"}

\* Error codes of the remote API that are in neither set.
UnknownCodes == {"fatal_error", "ratelimited"}

ErrorCodes == RETRYABLE_ERRORS \cup NON_RETRYABLE_ERRORS \cup UnknownCodes

\* retry_base_delay values explored, in milliseconds (0.1 s and the default 1.0 s).
BaseDelays == {100, 1000}

\* relay_channel_id: None, the empty string, or a channel id.
NoneValue == "<None>"
ChannelIds == {NoneValue, "", "C12345678"}

Sources == {"dm", "webhook"}

\* ------------------------------------------------ text of a Retry-After header
Digits == {"0", "1", "2", "3", "4", "5", "6", "7", "8", "9"}

\* Header texts the remote may send, as sequences of characters: the empty
\* string, whole seconds (plain and padded), a fraction of a second.
RetryAfterTexts ==
    { <<>>, <<"0">>, <<"5">>, <<" ", "5">>, <<"1", ".", "5">> }

\* The headers mapping of a response: Retry-After absent, or present with a text.
Headers ==
    { [present |-> FALSE, text |-> <<>>] }
        \cup { [present |-> TRUE, text |-> t] : t \in RetryAfterTexts }

\* Headers of the responses whose code is not rate_limited: the header is never
\* read for them, so one absent and one present value are explored.
PlainHeaders ==
    { [present |-> FALSE, text |-> <<>>], [present |-> TRUE, text |-> <<"5">>] }

\* What an awaited chat_postMessage produces: the response dict (ok), or a
\* SlackApiError whose response.data may or may not hold an "error" entry.
Responses ==
    { [ok |-> TRUE, hasError |-> FALSE, error |-> "",
       retryAfter |-> [present |-> FALSE, text |-> <<>>]] }
        \cup { [ok |-> FALSE, hasError |-> TRUE, error |-> "rate_limited",
                 retryAfter |-> h] : h \in Headers }
        \cup { [ok |-> FALSE, hasError |-> TRUE, error |-> c, retryAfter |-> h] :
                   c \in ErrorCodes \ {"rate_limited"}, h \in PlainHeaders }
        \cup { [ok |-> FALSE, hasError |-> FALSE, error |-> "", retryAfter |-> h] :
                   h \in PlainHeaders }

NoResponse == [ok |-> FALSE, hasError |-> FALSE, error |-> "<none>",
               retryAfter |-> [present |-> FALSE, text |-> <<>>]]

VARIABLES
    config,          \* the frozen Config: max_retries, retry_base_delay, relay_channel_id
    held,            \* locks the relay task holds when its step ends
    pc,              \* where the relay coroutine is: idle, calling, sleeping, done
    source,          \* source label of the running call
    attempt,         \* loop variable of `for attempt in range(max_retries + 1)`
    lastResponse,    \* what the latest chat_postMessage await produced
    outcome,         \* how the call ended: "True", "False", or the name of the
                     \* exception that left it; "none" before
    calls,           \* chat_postMessage invocations of the running call
    sleeps,          \* arguments of asyncio.sleep of the running call, in order
    inflight,        \* chat_postMessage calls dispatched and not yet returned
    timers,          \* asyncio.sleep calls started and not yet elapsed
    retryableFailures, \* attempts of the running call that failed with a retryable code
    hintSeen,        \* some failure of the running call carried a Retry-After header
    relay_counter,   \* messages_relayed_total._labeled_values
    retry_counter,   \* relay_retries_total._labeled_values
    error_counter    \* relay_errors_total._labeled_values

VARIABLES
    cancelled        \* where the caller's task.cancel() reached the relay call:
                     \* "no", "sleeping" or "calling"

\* One metric of metrics.py (a Counter, a Gauge or a Histogram), the views made
\* from it by labels(), and the threads that use them.
VARIABLES
    mkind,           \* class of the metric: "counter", "gauge" or "histogram"
    mparent,         \* the metric's own fields: _value, or _count and _sum
    mlabeled,        \* the dict _labeled_values / _labeled_stats, shared with the views
    mviews,          \* the objects returned by labels(): their _labels and own fields
    mlock,           \* the Lock shared by the metric and its views: "free" or its holder
    tpc,             \* per thread: where it is inside a method
    top,             \* per thread: the method, its receiver, argument, locals, result
    serial,          \* per cell: the outcome of the mutations applied one at a time,
                     \* in the order in which they took the lock
    history,         \* every value `serial` has given to a cell
    mops             \* methods called so far

metricVars == << mkind, mparent, mlabeled, mviews, mlock, tpc, top, serial,
                 history, mops >>

\* A MetricsRegistry and the threads that call its factory methods.
VARIABLES
    rmetrics,        \* self._metrics: name -> identity of the registered object
    robjs,           \* the metric objects made so far, by identity
    rlock,           \* holder of the registry's Lock, or "free"
    rpc,             \* per thread: position inside counter / gauge / histogram
    rcall,           \* per thread: the call it makes and what came of it
    returned,        \* bookkeeping: every (name, kind, object) handed to a caller
    rops             \* bookkeeping: factory calls and increments made so far

regVars == << rmetrics, robjs, rlock, rpc, rcall, returned, rops >>

\* POST /api/notify: NotifyHandler, NotificationService and SlackNotifier.
VARIABLES
    ncfg,            \* Config: notifications_channel_id, opladmins_group_handle
    npc,             \* where the request is: idle, lookup, posting, saving
    usergroup_id,    \* SlackNotifier._usergroup_id, the cached lookup
    nposts,          \* chat_postMessage calls of the running request
    nlookups,        \* usergroups_list calls of the running request
    usergroups_list_calls, \* usergroups_list calls of the notifier so far
    nkey,            \* bookkeeping: X-API-Key of the latest request
    slack_result,    \* SlackNotifyResult of the running request
    nrecord,         \* the NotificationHistory made by the running request
    nsaves,          \* save_notification calls of the running request, in order
    stored,          \* ids of the rows the store holds
    save_outcome,    \* how the latest save_notification ended
    nresult,         \* NotificationResult of the latest request
    nresponse,       \* HTTP response of the latest request
    notify_counter,  \* notify_requests_total: label key -> value
    now,             \* bookkeeping: a clock that ticks at every step
    first_post_at,   \* bookkeeping: clock value when chat_postMessage was called
    ncalls           \* bookkeeping: requests handled so far

notifyVars == << ncfg, npc, usergroup_id, nposts, nlookups,
                usergroups_list_calls, nkey, slack_result, nrecord,
                 nsaves, stored, save_outcome, nresult, nresponse,
                 notify_counter, now, first_post_at, ncalls >>

\* POST /webhook: WebhookHandler.handle_webhook.
VARIABLES
    wpc,             \* where the request is: idle, or relaying (inside the timed block)
    wclock,          \* time.perf_counter()
    wstart,          \* `start` of the running timed block
    relay_latency,   \* relay_latency_seconds, the stats of source="webhook"
    webhook_counter, \* webhook_requests_total: label key -> value
    wdelivered,      \* how relay_webhook ended for the latest request
    wresponse,       \* HTTP response of the latest request
    wentered,        \* bookkeeping: timed blocks entered so far
    wexits,          \* bookkeeping: how each timed block was left, in order
    wcalls,          \* bookkeeping: requests handled so far
    wkey             \* bookkeeping: X-API-Key of the latest request

webhookVars == << wpc, wclock, wstart, relay_latency, webhook_counter, wdelivered,
                  wresponse, wentered, wexits, wcalls, wkey >>

\* The module global of labslack.metrics and the threads calling get_metrics.
VARIABLES
    metrics_registry, \* _metrics_registry: 0 for None, else the registry's identity
    gpc,              \* per thread: position inside get_metrics
    gbegan,           \* per thread: number of resets when its call began
    ghanded,          \* bookkeeping: the calls that returned, with their registry
    gresets,          \* bookkeeping: reset_metrics calls so far
    gmade,            \* bookkeeping: MetricsRegistry objects made so far
    gops              \* bookkeeping: get_metrics and reset_metrics calls so far

globalVars == << metrics_registry, gpc, gbegan, ghanded, gresets, gmade, gops >>

\* Results of get_stats() and get_all() that a caller keeps.
VARIABLES
    results,         \* the dicts returned so far: what each showed when it was
                     \* returned, and which of its entries are the metric's own
                     \* stats dicts rather than copies
    sops             \* bookkeeping: calls made so far

snapVars == << results, sops >>

restVars == << notifyVars, webhookVars, globalVars, snapVars >>

\* The state outside the relay call itself; the relay's steps leave it alone.
otherVars == << cancelled, metricVars, regVars, restVars >>

vars == << config, held, pc, source, attempt, lastResponse, outcome, calls, sleeps,
           inflight, timers, retryableFailures, hintSeen,
           relay_counter, retry_counter, error_counter, otherVars >>

\* ------------------------------------------------------------ pure functions
\* e.response.data.get("error", default)
DataGetError(response, default) ==
    IF response.hasError THEN response.error ELSE default

\* e.response.headers.get("Retry-After"), None when the header is absent
HeaderPresent(response) == response.retryAfter.present

\* truth value of a Python str: non-empty
Truthy(text) == text # <<>>

\* str.strip() on the whitespace the header texts use
RECURSIVE StripLeft(_)
StripLeft(text) ==
    IF text # <<>> /\ Head(text) = " " THEN StripLeft(Tail(text)) ELSE text

RECURSIVE StripRight(_)
StripRight(text) ==
    IF text # <<>> /\ text[Len(text)] = " "
    THEN StripRight(SubSeq(text, 1, Len(text) - 1))
    ELSE text

Strip(text) == StripRight(StripLeft(text))

DigitValue(c) ==
    CASE c = "0" -> 0 [] c = "1" -> 1 [] c = "2" -> 2 [] c = "3" -> 3
      [] c = "4" -> 4 [] c = "5" -> 5 [] c = "6" -> 6 [] c = "7" -> 7
      [] c = "8" -> 8 [] c = "9" -> 9

RECURSIVE DigitsValue(_)
DigitsValue(ds) ==
    IF ds = <<>> THEN 0
    ELSE 10 * DigitsValue(SubSeq(ds, 1, Len(ds) - 1)) + DigitValue(ds[Len(ds)])

\* int(text) for a str: surrounding whitespace is dropped, one sign is allowed,
\* the rest must be one or more decimal digits; anything else is a ValueError.
PyInt(text) ==
    LET t      == Strip(text)
        signed == t # <<>> /\ Head(t) \in {"+", "-"}
        body   == IF signed THEN Tail(t) ELSE t
        valid  == body # <<>> /\ \A i \in 1..Len(body) : body[i] \in Digits
        sign   == IF signed /\ Head(t) = "-" THEN -1 ELSE 1
    IN  IF valid
        THEN [raises |-> FALSE, value |-> sign * DigitsValue(body)]
        ELSE [raises |-> TRUE, value |-> 0]

\* Variant: two account codes are taken for transient ones.
IsRetryableError_tooWide(error_code) ==
    error_code \in RETRYABLE_ERRORS \cup {"account_inactive", "token_revoked"}

\* Variant: everything not known to be permanent is retried.
IsRetryableError_failOpen(error_code) == error_code \notin NON_RETRYABLE_ERRORS

\* MessageRelay._is_retryable_error
IsRetryableError(error_code) == error_code \in RETRYABLE_ERRORS

\* Variant: the delay grows linearly with the attempt index.
GetRetryDelay_linear(att, response) ==
    LET error_code == DataGetError(response, "")
    IN  IF error_code = "rate_limited"
           /\ HeaderPresent(response) /\ Truthy(response.retryAfter.text)
        THEN LET parsed == PyInt(response.retryAfter.text)
             IN  IF parsed.raises
                 THEN [raises |-> TRUE, delay |-> 0]
                 ELSE [raises |-> FALSE, delay |-> 1000 * parsed.value]
        ELSE [raises |-> FALSE, delay |-> config.retry_base_delay * (att + 1)]

\* Variant: the Retry-After header is not consulted.
GetRetryDelay_ignoresHeader(att, response) ==
    [raises |-> FALSE, delay |-> config.retry_base_delay * (2 ^ att)]

\* Variant: the Retry-After header is honoured for every error code.
GetRetryDelay_anyCode(att, response) ==
    IF HeaderPresent(response) /\ Truthy(response.retryAfter.text)
    THEN LET parsed == PyInt(response.retryAfter.text)
         IN  IF parsed.raises
             THEN [raises |-> TRUE, delay |-> 0]
             ELSE [raises |-> FALSE, delay |-> 1000 * parsed.value]
    ELSE [raises |-> FALSE, delay |-> config.retry_base_delay * (2 ^ att)]

\* MessageRelay._get_retry_delay: the delay in milliseconds, or a ValueError
\* raised by int() on the header text.
GetRetryDelay(att, response) ==
    LET error_code == DataGetError(response, "")
        exponential == [raises |-> FALSE,
                        delay |-> config.retry_base_delay * (2 ^ att)]
    IN  IF error_code = "rate_limited"
           /\ HeaderPresent(response) /\ Truthy(response.retryAfter.text)
        THEN LET parsed == PyInt(response.retryAfter.text)
             IN  IF parsed.raises
                 THEN [raises |-> TRUE, delay |-> 0]
                 ELSE [raises |-> FALSE, delay |-> 1000 * parsed.value]
        ELSE exponential

\* Variant: `self.config.relay_channel_id is None`
ChannelMissing_isNone == config.relay_channel_id = NoneValue

\* `not self.config.relay_channel_id`: None and "" are both falsy
ChannelMissing == config.relay_channel_id \in {NoneValue, ""}

\* stop value of `range(self.config.max_retries + 1)`
LoopStop == config.max_retries + 1

\* Variant: `attempt + 1 < self.config.max_retries`
CanRetry_offByOne(att) == att + 1 < config.max_retries

\* `attempt < self.config.max_retries`
CanRetry(att) == att < config.max_retries

\* Counter.labels(**kwargs) followed by inc(): the cell is addressed by
\* tuple(sorted(kwargs.items())), created at 0.0 on first use, and gets + 1.0.
ErrorKey(src, error_code) == << <<"error", error_code>>, <<"source", src>> >>

StatusKey(src, status) == << <<"source", src>>, <<"status", status>> >>

CounterGet(labeled_values, key) ==
    IF key \in DOMAIN labeled_values THEN labeled_values[key] ELSE 0

CounterInc(labeled_values, key) ==
    [k \in DOMAIN labeled_values \cup {key} |->
        IF k = key THEN CounterGet(labeled_values, key) + 1
        ELSE labeled_values[k]]

EmptyCells == [k \in {} |-> 0]

\* `with self._lock:` around the body of inc() and of the registry's factory
\* methods: the lock is taken on entry and given back on exit.  The body has
\* no await, so both happen within one step of the task.
Acquire(locks, lock) == locks \cup {lock}

\* Variant: the lock is not given back.
Release_kept(locks, lock) == locks

Release(locks, lock) == locks \ {lock}

\* The locks held after the given locked blocks have run one after another.
RECURSIVE WithLocks(_, _)
WithLocks(locks, names) ==
    IF names = <<>> THEN locks
    ELSE WithLocks(Release(Acquire(locks, Head(names)), Head(names)),
                   Tail(names))

\* registry.counter(...) three times in MessageRelay.__init__.
AfterConstruction == WithLocks({}, << "registry", "registry", "registry" >>)

\* ---------------------------------------------------------------- the relay
\* Bookkeeping of the observed responses, taken from the response alone: 1 for
\* a SlackApiError whose code is one of RETRYABLE_ERRORS, else 0.
RetryableCount(response) ==
    IF ~response.ok /\ response.hasError /\ response.error \in RETRYABLE_ERRORS
    THEN 1 ELSE 0

Configs ==
    [max_retries : 0..MaxRetriesCfg, retry_base_delay : BaseDelays,
     relay_channel_id : ChannelIds]

\* ----------------------------------------- metric cells, views and threads
\* Largest number of inc / dec / set / observe / get_stats calls explored.
MaxMetricOps == 2

Threads == {"t1", "t2"}

\* The caller's names for the objects that labels() returns.
ViewNames == {"v1", "v2"}

MetricKinds == {"counter", "gauge", "histogram"}

\* Arguments of inc; of Gauge.set and Gauge.dec; of observe.
Amounts == {-1, 2}
Levels == {1}
Observations == {2}

\* Keyword arguments of labels(), in call order.
KwargsChoices ==
    { <<>>,
      << <<"source", "dm">> >>,
      << <<"source", "dm">>, <<"status", "ok">> >>,
      << <<"status", "ok">>, <<"source", "dm">> >> }

NameOrder == << "source", "status" >>

\* tuple(sorted(kwargs.items())): the pairs ordered by label name.
RECURSIVE SortedFrom(_, _)
SortedFrom(kwargs, n) ==
    IF n > Len(NameOrder) THEN <<>>
    ELSE LET here == { i \in 1..Len(kwargs) : kwargs[i][1] = NameOrder[n] }
         IN  (IF here = {} THEN <<>> ELSE << kwargs[CHOOSE i \in here : TRUE] >>)
                 \o SortedFrom(kwargs, n + 1)

SortedItems(kwargs) == SortedFrom(kwargs, 1)

\* The fields of one cell: _value of a Counter or Gauge, count and sum of a
\* Histogram.
ZeroCell == [value |-> 0, count |-> 0, sum |-> 0]

NoCells == [k \in {} |-> ZeroCell]

\* A name that holds no view yet.
NoView == [made |-> FALSE, labels |-> <<>>, own |-> ZeroCell]

\* The receivers a method can be called on: the metric and the views made.
Receivers == {"metric"} \cup { v \in ViewNames : mviews[v].made }

\* self._labels of a receiver; the metric's own is the empty default dict.
LabelsOf(target) == IF target = "metric" THEN <<>> ELSE mviews[target].labels

\* Variant: the key is the pairs in the order the keywords were passed.
CellOf_unsorted(target) ==
    IF LabelsOf(target) # <<>>
    THEN [where |-> "labeled", idx |-> "metric", key |-> LabelsOf(target)]
    ELSE [where |-> "own", idx |-> target, key |-> <<>>]

\* Variant: the key is made of the first sorted pair only.
CellOf_firstPair(target) ==
    IF LabelsOf(target) # <<>>
    THEN [where |-> "labeled", idx |-> "metric",
          key |-> << SortedItems(LabelsOf(target))[1] >>]
    ELSE [where |-> "own", idx |-> target, key |-> <<>>]

\* The storage a method of receiver `target` works on: `if self._labels` picks
\* the shared dict under the sorted key, otherwise the receiver's own fields.
CellOf(target) ==
    IF LabelsOf(target) # <<>>
    THEN [where |-> "labeled", idx |-> "metric", key |-> SortedItems(LabelsOf(target))]
    ELSE [where |-> "own", idx |-> target, key |-> <<>>]

\* self._value, or self._labeled_values.get(key, 0.0) (and the like for stats)
GetCell(id) ==
    IF id.where = "own"
    THEN (IF id.idx = "metric" THEN mparent ELSE mviews[id.idx].own)
    ELSE (IF id.key \in DOMAIN mlabeled THEN mlabeled[id.key] ELSE ZeroCell)

\* Variant: the unlabeled cell mirrors the latest write to a labeled cell.
PutCell_mirrored(id, cell) ==
    /\ mparent' = (IF id.where = "labeled" \/ id.idx = "metric" THEN cell ELSE mparent)
    /\ mviews' = (IF id.where = "own" /\ id.idx # "metric"
                  THEN [mviews EXCEPT ![id.idx].own = cell] ELSE mviews)
    /\ mlabeled' = (IF id.where = "labeled"
                    THEN [k \in DOMAIN mlabeled \cup {id.key} |->
                            IF k = id.key THEN cell ELSE mlabeled[k]]
                    ELSE mlabeled)

\* A write to the storage of a receiver: self._value (or _count, _sum), or
\* the entry of the shared dict under the key.
PutCell(id, cell) ==
    /\ mparent' = (IF id.where = "own" /\ id.idx = "metric" THEN cell ELSE mparent)
    /\ mviews' = (IF id.where = "own" /\ id.idx # "metric"
                  THEN [mviews EXCEPT ![id.idx].own = cell] ELSE mviews)
    /\ mlabeled' = (IF id.where = "labeled"
                    THEN [k \in DOMAIN mlabeled \cup {id.key} |->
                            IF k = id.key THEN cell ELSE mlabeled[k]]
                    ELSE mlabeled)

SerialGet(id) == IF id \in DOMAIN serial THEN serial[id] ELSE ZeroCell

\* The effect of a whole method on a cell.
Apply(op, arg, cell) ==
    CASE op = "inc" -> [cell EXCEPT !.value = @ + arg]
      [] op = "dec" -> [cell EXCEPT !.value = @ - arg]
      [] op = "set" -> [cell EXCEPT !.value = arg]
      [] op = "observe" -> [cell EXCEPT !.count = @ + 1, !.sum = @ + arg]
      [] OTHER -> cell

\* The methods of each class and their arguments.
Mutators(kind) ==
    CASE kind = "counter" -> {"inc"}
      [] kind = "gauge" -> {"set", "inc", "dec"}
      [] kind = "histogram" -> {"observe"}

ArgsOf(op) ==
    CASE op = "observe" -> Observations
      [] op = "inc" -> Amounts
      [] OTHER -> Levels

NoResult == [present |-> FALSE, count |-> 0, sum |-> 0]

IdleOp == [op |-> "none", target |-> "metric", arg |-> 0, tmp |-> 0, res |-> NoResult]

\* No metric activity: the state of these variables in the relay's behaviours.
MetricsIdle ==
    /\ mparent = ZeroCell
    /\ mlabeled = NoCells
    /\ mviews = [v \in ViewNames |-> NoView]
    /\ mlock = "free"
    /\ tpc = [t \in Threads |-> "idle"]
    /\ top = [t \in Threads |-> IdleOp]
    /\ serial = [i \in {} |-> ZeroCell]
    /\ history = {}
    /\ mops = 0

\* Largest number of factory calls and increments explored on one registry.
MaxRegistryOps == 3

Names == {"x", "y"}
Descriptions == {"d", "e"}

NoCall == [kind |-> "none", name |-> "x", description |-> "d", metric |-> 0,
           result |-> "none"]

\* MetricsRegistry(): no metric registered, the Lock free.
RegistryIdle ==
    /\ rmetrics = [n \in {} |-> 0]
    /\ robjs = [i \in {} |-> 0]
    /\ rlock = "free"
    /\ rpc = [t \in Threads |-> "idle"]
    /\ rcall = [t \in Threads |-> NoCall]
    /\ returned = {}
    /\ rops = 0

\* ------------------------------------------------ the notify request path
\* Largest number of POST /api/notify requests explored.
MaxNotifyCalls == 2

\* Config.webhook_api_key as deployed.
WebhookApiKey == "secret"

GroupHandles == {"", "opladmins"}

\* Config.webhook_api_key: unset, set to the empty string, or a key.
ApiKeys == {NoneValue, "", WebhookApiKey}

NotifyConfigs ==
    [notifications_channel_id : ChannelIds, opladmins_group_handle : GroupHandles,
     webhook_api_key : ApiKeys]

\* Config(): notifications_channel_id None, opladmins_group_handle "opladmins".
DefaultNotifyConfig ==
    [notifications_channel_id |-> NoneValue, opladmins_group_handle |-> "opladmins",
     webhook_api_key |-> NoneValue]

\* `not x` for an optional str: None and "" are falsy.
Falsy(x) == x \in {NoneValue, ""}

\* No request has been received.
NoKey == [seen |-> FALSE, key |-> NoneValue]

\* Variant: the header is only compared with the configured key.
Unauthorized_compareOnly(api_key) == api_key # ncfg.webhook_api_key

\* `if not api_key or api_key != self.config.webhook_api_key`, with api_key
\* from request.headers.get("X-API-Key")
Unauthorized(api_key) == Falsy(api_key) \/ api_key # ncfg.webhook_api_key

IsoDates == {"2024-03-15T12:00:00Z"}

\* The X-API-Key header and the JSON body of a request.
NotifyRequests ==
    [api_key : {NoneValue, "", "wrong", WebhookApiKey},
     json_ok : BOOLEAN,
     cluster_id : {NoneValue, "ocp-prod-01"},
     cluster_name : {"", "Production Cluster"},
     notification_type : {NoneValue, "warning", "bogus"},
     expiration_date : {NoneValue, "soon"} \cup IsoDates]

VALID_NOTIFICATION_TYPES == {"warning", "expiration"}

\* NotifyHandler._validate_request: the error message, or None.
ValidateRequest(data) ==
    IF Falsy(data.cluster_id) THEN "cluster_id is required"
    ELSE IF Falsy(data.cluster_name) THEN "cluster_name is required"
    ELSE IF Falsy(data.notification_type) THEN "notification_type is required"
    ELSE IF data.notification_type \notin VALID_NOTIFICATION_TYPES
         THEN "notification_type must be one of"
    ELSE NoneValue

\* The checks of handle_notify before the service is called: the status label
\* of the rejection, or "accepted".
NotifyScreen(req) ==
    IF Unauthorized(req.api_key) THEN "unauthorized"
    ELSE IF ~req.json_ok THEN "invalid_json"
    ELSE IF ValidateRequest(req) # NoneValue THEN "validation_error"
    ELSE IF ~Falsy(req.expiration_date) /\ req.expiration_date \notin IsoDates
         THEN "invalid_date"
    ELSE "accepted"

ScreenCode(status) == IF status = "unauthorized" THEN 401 ELSE 400

\* How usergroups_list and chat_postMessage can end, and save_notification.
LookupOutcomes == {"found", "not_found", "not_ok", "raises"}
PostErrors == {"rate_limited", "channel_not_found", "ConnectionError"}
PostOutcomes == {"ok"} \cup PostErrors
SaveOutcomes == {"ok", "raises"}

NOT_CONFIGURED == "NOTIFICATIONS_CHANNEL_ID not configured"

NoSlackResult == [present |-> FALSE, success |-> FALSE, channel |-> NoneValue,
                  ts |-> NoneValue, error |-> NoneValue]

NoRecord == [present |-> FALSE, id |-> 0, status |-> "none",
             error_message |-> NoneValue, created_at |-> 0]

NoNotificationResult == [present |-> FALSE, success |-> FALSE, notification_id |-> 0,
                         timestamp |-> 0, error |-> NoneValue]

NoHttpResponse == [present |-> FALSE, code |-> 0, status |-> "none",
                   error |-> NoneValue]

\* Nothing has been requested yet.
NotifyFresh ==
    /\ npc = "idle"
    /\ usergroup_id = NoneValue
    /\ nposts = 0
    /\ nlookups = 0
    /\ usergroups_list_calls = 0
    /\ nkey = NoKey
    /\ slack_result = NoSlackResult
    /\ nrecord = NoRecord
    /\ nsaves = <<>>
    /\ stored = {}
    /\ save_outcome = "none"
    /\ nresult = NoNotificationResult
    /\ nresponse = NoHttpResponse
    /\ notify_counter = EmptyCells
    /\ now = 0
    /\ first_post_at = 0
    /\ ncalls = 0

NotifyIdle == ncfg = DefaultNotifyConfig /\ NotifyFresh

\* ------------------------------------------------ the webhook request path
\* Largest number of POST /webhook requests explored.
MaxWebhookCalls == 2

\* How `await self.relay.relay_webhook(...)` can end: it returns True or False,
\* raises the ValueError of int(retry_after), or the task is cancelled.
RelayOutcomes == {"True", "False", "ValueError", "CancelledError"}

\* Ticks of perf_counter that pass while the relay runs.
Durations == {1, 2}

WebhookMessages ==
    { [present |-> FALSE, text |-> <<>>],
      [present |-> TRUE, text |-> <<>>],
      [present |-> TRUE, text |-> << " " >>],
      [present |-> TRUE, text |-> << "h", "i" >>] }

\* The X-API-Key header and the JSON body of a request.
WebhookRequests ==
    [api_key : {NoneValue, "", "wrong", WebhookApiKey}, json_ok : BOOLEAN,
     message : WebhookMessages]

\* The checks of handle_webhook before the relay is called: the status label
\* of the rejection, or "accepted".
WebhookScreen(req) ==
    IF Unauthorized(req.api_key) THEN "unauthorized"
    ELSE IF ~req.json_ok THEN "invalid_json"
    ELSE IF ~req.message.present THEN "missing_message"
    ELSE IF ~Truthy(Strip(req.message.text)) THEN "empty_message"
    ELSE "accepted"

ZeroStats == [count |-> 0, sum |-> 0]

WebhookIdle ==
    /\ wpc = "idle"
    /\ wclock = 0
    /\ wstart = 0
    /\ relay_latency = ZeroStats
    /\ webhook_counter = EmptyCells
    /\ wdelivered = "none"
    /\ wresponse = NoHttpResponse
    /\ wentered = 0
    /\ wexits = <<>>
    /\ wcalls = 0
    /\ wkey = NoKey

\* ------------------------------------------------ the global registry
\* Largest number of get_metrics / reset_metrics calls explored.
MaxGlobalOps == 3

\* _metrics_registry = None, no caller.
GlobalIdle ==
    /\ metrics_registry = 0
    /\ gpc = [t \in Threads |-> "idle"]
    /\ gbegan = [t \in Threads |-> 0]
    /\ ghanded = {}
    /\ gresets = 0
    /\ gmade = 0
    /\ gops = 0

\* ------------------------------------------------ results kept by a caller
\* Largest number of metric calls explored while results are kept.
MaxSnapshotOps == 3

SnapIdle ==
    /\ results = {}
    /\ sops = 0

RestIdle == NotifyIdle /\ WebhookIdle /\ GlobalIdle /\ SnapIdle

\* MessageRelay.__init__ on a fresh registry: the three counters have no cells.
Init ==
    /\ mkind = "counter"
    /\ MetricsIdle
    /\ RegistryIdle
    /\ RestIdle
    /\ config \in Configs
    /\ held = AfterConstruction
    /\ pc = "idle"
    /\ source = "dm"
    /\ attempt = 0
    /\ lastResponse = NoResponse
    /\ outcome = "none"
    /\ calls = 0
    /\ sleeps = <<>>
    /\ inflight = 0
    /\ timers = 0
    /\ retryableFailures = 0
    /\ hintSeen = FALSE
    /\ relay_counter = EmptyCells
    /\ retry_counter = EmptyCells
    /\ error_counter = EmptyCells
    /\ cancelled = "no"

\* Variant: the increment carries the default source of
\* _send_message_with_retry, not the one of the entry point.
Return_defaultSource(src, success) ==
    /\ relay_counter' =
          CounterInc(relay_counter,
                     StatusKey("unknown", IF success THEN "success" ELSE "failed"))
    /\ outcome' = (IF success THEN "True" ELSE "False")
    /\ pc' = "done"

\* The tail of relay_dm / relay_webhook once _send_message_with_retry has
\* returned `success`: one increment of messages_relayed_total, then return.
Return(src, success) ==
    /\ relay_counter' =
          CounterInc(relay_counter,
                     StatusKey(src, IF success THEN "success" ELSE "failed"))
    /\ outcome' = (IF success THEN "True" ELSE "False")
    /\ pc' = "done"

\* One pass of the for statement: the next value of range(...) is bound to
\* `attempt` and chat_postMessage is awaited, or the range is used up and the
\* function falls through to its final `return False`.
Iterate(src, att) ==
    IF att < LoopStop
    THEN /\ attempt' = att
         /\ calls' = calls + 1
         /\ inflight' = inflight + 1
         /\ pc' = "calling"
         /\ UNCHANGED << outcome, relay_counter, held >>
    ELSE /\ attempt' = attempt
         /\ UNCHANGED << calls, inflight >>
         /\ held' = WithLocks(held, << "relay_counter" >>)
         /\ Return(src, FALSE)

\* Variant: the missing channel is counted under a code of the remote API.
RelayNoChannel_remoteTag(src) ==
    /\ pc = "idle"
    /\ ChannelMissing
    /\ source' = src
    /\ attempt' = 0
    /\ lastResponse' = NoResponse
    /\ calls' = 0
    /\ sleeps' = <<>>
    /\ retryableFailures' = 0
    /\ hintSeen' = FALSE
    /\ error_counter' = CounterInc(error_counter, ErrorKey(src, "channel_not_found"))
    /\ Return(src, FALSE)
    /\ held' = WithLocks(held, << "error_counter", "relay_counter" >>)
    /\ UNCHANGED << otherVars, config, inflight, timers, retry_counter >>

\* relay_dm / relay_webhook with no channel configured: the guard at the top
\* of _send_message_with_retry counts a no_channel error and returns False.
RelayNoChannel(src) ==
    /\ pc = "idle"
    /\ ChannelMissing
    /\ source' = src
    /\ attempt' = 0
    /\ lastResponse' = NoResponse
    /\ calls' = 0
    /\ sleeps' = <<>>
    /\ retryableFailures' = 0
    /\ hintSeen' = FALSE
    /\ error_counter' = CounterInc(error_counter, ErrorKey(src, "no_channel"))
    /\ Return(src, FALSE)
    /\ held' = WithLocks(held, << "error_counter", "relay_counter" >>)
    /\ UNCHANGED << otherVars, config, inflight, timers, retry_counter >>

\* relay_dm / relay_webhook with a channel: runs up to the first await.
RelayStart(src) ==
    /\ pc = "idle"
    /\ ~ChannelMissing
    /\ source' = src
    /\ lastResponse' = NoResponse
    /\ sleeps' = <<>>
    /\ retryableFailures' = 0
    /\ hintSeen' = FALSE
    /\ IF 0 < LoopStop
       THEN /\ attempt' = 0
            /\ calls' = 1
            /\ inflight' = inflight + 1
            /\ pc' = "calling"
            /\ outcome' = "none"
            /\ UNCHANGED << relay_counter, held >>
       ELSE /\ attempt' = 0
            /\ calls' = 0
            /\ UNCHANGED inflight
            /\ held' = WithLocks(held, << "relay_counter" >>)
            /\ Return(src, FALSE)
    /\ UNCHANGED << otherVars, config, timers, retry_counter, error_counter >>

\* chat_postMessage returns: `return True`.
PostMessageReturns(response) ==
    /\ pc = "calling"
    /\ response.ok
    /\ lastResponse' = response
    /\ inflight' = inflight - 1
    /\ Return(source, TRUE)
    /\ held' = WithLocks(held, << "relay_counter" >>)
    /\ UNCHANGED << otherVars, config, source, attempt, calls, sleeps, timers,
                    retryableFailures, hintSeen, retry_counter,
                    error_counter >>

\* SlackApiError with a code that is not retryable: count the error, return False.
PostMessageNonRetryable(response) ==
    LET error_code == DataGetError(response, "unknown") IN
    /\ pc = "calling"
    /\ ~response.ok
    /\ ~IsRetryableError(error_code)
    /\ lastResponse' = response
    /\ inflight' = inflight - 1
    /\ hintSeen' = (hintSeen \/ HeaderPresent(response))
    /\ retryableFailures' = retryableFailures + RetryableCount(response)
    /\ error_counter' = CounterInc(error_counter, ErrorKey(source, error_code))
    /\ Return(source, FALSE)
    /\ held' = WithLocks(held, << "error_counter", "relay_counter" >>)
    /\ UNCHANGED << otherVars, config, source, attempt, calls, sleeps, timers,
                    retry_counter >>

\* Variant: asyncio.sleep(delay) is started but not awaited, the loop goes on.
PostMessageRetry_unawaited(response) ==
    LET error_code == DataGetError(response, "unknown")
        delay == GetRetryDelay(attempt, response) IN
    /\ pc = "calling"
    /\ ~response.ok
    /\ IsRetryableError(error_code)
    /\ CanRetry(attempt)
    /\ ~delay.raises
    /\ lastResponse' = response
    /\ retryableFailures' = retryableFailures + RetryableCount(response)
    /\ hintSeen' = (hintSeen \/ HeaderPresent(response))
    /\ retry_counter' = CounterInc(retry_counter, ErrorKey(source, error_code))
    /\ sleeps' = Append(sleeps, delay.delay)
    /\ timers' = timers + 1
    /\ attempt' = attempt + 1
    /\ calls' = calls + 1
    /\ held' = WithLocks(held, << "retry_counter" >>)
    /\ UNCHANGED << otherVars, config, source, outcome, inflight, pc,
                    relay_counter, error_counter >>

\* SlackApiError with a retryable code and retries left: compute the delay,
\* count the retry, await asyncio.sleep(delay).
PostMessageRetry(response) ==
    LET error_code == DataGetError(response, "unknown")
        delay == GetRetryDelay(attempt, response) IN
    /\ pc = "calling"
    /\ ~response.ok
    /\ IsRetryableError(error_code)
    /\ CanRetry(attempt)
    /\ ~delay.raises
    /\ lastResponse' = response
    /\ inflight' = inflight - 1
    /\ retryableFailures' = retryableFailures + RetryableCount(response)
    /\ hintSeen' = (hintSeen \/ HeaderPresent(response))
    /\ retry_counter' = CounterInc(retry_counter, ErrorKey(source, error_code))
    /\ sleeps' = Append(sleeps, delay.delay)
    /\ timers' = timers + 1
    /\ pc' = "sleeping"
    /\ held' = WithLocks(held, << "retry_counter" >>)
    /\ UNCHANGED << otherVars, config, source, attempt, outcome, calls,
                    relay_counter, error_counter >>

\* SlackApiError with a retryable code and retries left, but int() rejects the
\* Retry-After text: the ValueError leaves _get_retry_delay, the except clause
\* and relay_dm / relay_webhook; nothing is counted.
PostMessageBadRetryAfter(response) ==
    LET error_code == DataGetError(response, "unknown")
        delay == GetRetryDelay(attempt, response) IN
    /\ pc = "calling"
    /\ ~response.ok
    /\ IsRetryableError(error_code)
    /\ CanRetry(attempt)
    /\ delay.raises
    /\ lastResponse' = response
    /\ inflight' = inflight - 1
    /\ retryableFailures' = retryableFailures + RetryableCount(response)
    /\ hintSeen' = (hintSeen \/ HeaderPresent(response))
    /\ outcome' = "ValueError"
    /\ pc' = "done"
    /\ held' = held
    /\ UNCHANGED << otherVars, config, source, attempt, calls, sleeps, timers,
                    relay_counter, retry_counter, error_counter >>

\* Variant: the error is counted under a fixed label, not under its code.
PostMessageExhausted_fixedLabel(response) ==
    LET error_code == DataGetError(response, "unknown") IN
    /\ pc = "calling"
    /\ ~response.ok
    /\ IsRetryableError(error_code)
    /\ ~CanRetry(attempt)
    /\ lastResponse' = response
    /\ inflight' = inflight - 1 + (IF attempt + 1 < LoopStop THEN 1 ELSE 0)
    /\ retryableFailures' = retryableFailures + RetryableCount(response)
    /\ hintSeen' = (hintSeen \/ HeaderPresent(response))
    /\ error_counter' = CounterInc(error_counter, ErrorKey(source, "max_retries"))
    /\ IF attempt + 1 < LoopStop
       THEN /\ attempt' = attempt + 1
            /\ calls' = calls + 1
            /\ pc' = "calling"
            /\ held' = WithLocks(held, << "error_counter" >>)
            /\ UNCHANGED << outcome, relay_counter >>
       ELSE /\ UNCHANGED << attempt, calls >>
            /\ held' = WithLocks(held, << "error_counter", "relay_counter" >>)
            /\ Return(source, FALSE)
    /\ UNCHANGED << otherVars, config, source, sleeps, timers, retry_counter >>

\* Variant: the last attempt is counted as a retry as well.
PostMessageExhausted_countsRetry(response) ==
    LET error_code == DataGetError(response, "unknown") IN
    /\ pc = "calling"
    /\ ~response.ok
    /\ IsRetryableError(error_code)
    /\ ~CanRetry(attempt)
    /\ lastResponse' = response
    /\ inflight' = inflight - 1 + (IF attempt + 1 < LoopStop THEN 1 ELSE 0)
    /\ retryableFailures' = retryableFailures + RetryableCount(response)
    /\ hintSeen' = (hintSeen \/ HeaderPresent(response))
    /\ error_counter' = CounterInc(error_counter, ErrorKey(source, error_code))
    /\ IF attempt + 1 < LoopStop
       THEN /\ attempt' = attempt + 1
            /\ calls' = calls + 1
            /\ pc' = "calling"
            /\ held' = WithLocks(held, << "error_counter" >>)
            /\ UNCHANGED << outcome, relay_counter >>
       ELSE /\ UNCHANGED << attempt, calls >>
            /\ held' = WithLocks(held, << "error_counter", "relay_counter" >>)
            /\ Return(source, FALSE)
    /\ retry_counter' = CounterInc(retry_counter, ErrorKey(source, error_code))
    /\ UNCHANGED << otherVars, config, source, sleeps, timers >>

\* SlackApiError with a retryable code and no retry left: count the error and
\* let the for statement go on, which ends the loop and returns False.
PostMessageExhausted(response) ==
    LET error_code == DataGetError(response, "unknown") IN
    /\ pc = "calling"
    /\ ~response.ok
    /\ IsRetryableError(error_code)
    /\ ~CanRetry(attempt)
    /\ lastResponse' = response
    /\ inflight' = inflight - 1 + (IF attempt + 1 < LoopStop THEN 1 ELSE 0)
    /\ retryableFailures' = retryableFailures + RetryableCount(response)
    /\ hintSeen' = (hintSeen \/ HeaderPresent(response))
    /\ error_counter' = CounterInc(error_counter, ErrorKey(source, error_code))
    /\ IF attempt + 1 < LoopStop
       THEN /\ attempt' = attempt + 1
            /\ calls' = calls + 1
            /\ pc' = "calling"
            /\ held' = WithLocks(held, << "error_counter" >>)
            /\ UNCHANGED << outcome, relay_counter >>
       ELSE /\ UNCHANGED << attempt, calls >>
            /\ held' = WithLocks(held, << "error_counter", "relay_counter" >>)
            /\ Return(source, FALSE)
    /\ UNCHANGED << otherVars, config, source, sleeps, timers, retry_counter >>

\* asyncio.sleep(delay) elapses: the loop body is over, the for statement goes on.
SleepElapses ==
    /\ pc = "sleeping"
    /\ timers' = timers - 1
    /\ Iterate(source, attempt + 1)
    /\ UNCHANGED << otherVars, config, source, lastResponse, sleeps, retryableFailures,
                    hintSeen, retry_counter, error_counter >>

Next ==
    \/ \E src \in Sources : RelayNoChannel(src)
    \/ \E src \in Sources : RelayStart(src)
    \/ \E response \in Responses : PostMessageReturns(response)
    \/ \E response \in Responses : PostMessageNonRetryable(response)
    \/ \E response \in Responses : PostMessageRetry(response)
    \/ \E response \in Responses : PostMessageBadRetryAfter(response)
    \/ \E response \in Responses : PostMessageExhausted(response)
    \/ SleepElapses

Spec == Init /\ [][Next]_vars

\* ------------------------------------------------------------- cancellation
\* Variant: the CancelledError is caught inside the loop, which goes on.
CancelDuringSleep_swallowed ==
    /\ pc = "sleeping"
    /\ cancelled = "no"
    /\ cancelled' = "sleeping"
    /\ timers' = timers - 1
    /\ Iterate(source, attempt + 1)
    /\ UNCHANGED << metricVars, regVars, restVars, config, source, lastResponse, sleeps, retryableFailures,
                    hintSeen, retry_counter, error_counter >>

\* The caller's task is cancelled while the relay awaits asyncio.sleep(delay):
\* the sleep's timer is dropped and CancelledError is raised at the await.  It
\* is no SlackApiError, so it leaves the loop and relay_dm / relay_webhook
\* before the messages_relayed_total increment.
CancelDuringSleep ==
    /\ pc = "sleeping"
    /\ cancelled = "no"
    /\ cancelled' = "sleeping"
    /\ timers' = timers - 1
    /\ outcome' = "CancelledError"
    /\ pc' = "done"
    /\ held' = held
    /\ UNCHANGED << metricVars, regVars, restVars, config, source, attempt, lastResponse, calls, sleeps,
                    inflight, retryableFailures, hintSeen, relay_counter,
                    retry_counter, error_counter >>

\* The caller's task is cancelled while the relay awaits chat_postMessage: the
\* await is given up and CancelledError leaves the call the same way.
CancelDuringCall ==
    /\ pc = "calling"
    /\ cancelled = "no"
    /\ cancelled' = "calling"
    /\ inflight' = inflight - 1
    /\ outcome' = "CancelledError"
    /\ pc' = "done"
    /\ held' = held
    /\ UNCHANGED << metricVars, regVars, restVars, config, source, attempt, lastResponse, calls, sleeps,
                    timers, retryableFailures, hintSeen, relay_counter,
                    retry_counter, error_counter >>

NextCancel ==
    \/ Next
    \/ CancelDuringSleep
    \/ CancelDuringCall

SpecCancel == Init /\ [][NextCancel]_vars

TypeOK ==
    /\ config \in Configs
    /\ pc \in {"idle", "calling", "sleeping", "done"}
    /\ source \in Sources
    /\ attempt \in 0..(MaxRetriesCfg + 1)
    /\ outcome \in {"none", "True", "False", "ValueError", "CancelledError"}
    /\ cancelled \in {"no", "sleeping", "calling"}
    /\ calls \in Nat
    /\ inflight \in Nat
    /\ timers \in Nat

\* ------------------------------------------- the methods of a metric, by step
relayVars == << config, held, pc, source, attempt, lastResponse, outcome, calls, sleeps,
                inflight, timers, retryableFailures, hintSeen,
                relay_counter, retry_counter, error_counter >>

\* Config() with its defaults; no relay call is made in the metric behaviours.
DefaultConfig ==
    [max_retries |-> 3, retry_base_delay |-> 1000, relay_channel_id |-> NoneValue]

RelayFresh ==
    /\ config = DefaultConfig
    /\ held = AfterConstruction
    /\ pc = "idle"
    /\ source = "dm"
    /\ attempt = 0
    /\ lastResponse = NoResponse
    /\ outcome = "none"
    /\ calls = 0
    /\ sleeps = <<>>
    /\ inflight = 0
    /\ timers = 0
    /\ retryableFailures = 0
    /\ hintSeen = FALSE
    /\ relay_counter = EmptyCells
    /\ retry_counter = EmptyCells
    /\ error_counter = EmptyCells
    /\ cancelled = "no"

\* A fresh Counter, Gauge or Histogram with no views, and two idle threads.
InitMetrics ==
    /\ RelayFresh
    /\ mkind \in MetricKinds
    /\ MetricsIdle
    /\ RegistryIdle
    /\ RestIdle

\* Variant: labels() gives each view a Lock of its own, so only users of the
\* same object exclude each other.
LockAvailable_perObject(t) ==
    IF mlock = "free" THEN TRUE ELSE top[mlock].target # top[t].target

\* `with self._lock:` is entered only when the one shared Lock is free.
LockAvailable(t) == mlock = "free"

\* v = metric.labels(**kwargs): a new object with its own fields at zero that
\* refers to the metric's dict and Lock.
MLabels(v, kwargs) ==
    /\ ~mviews[v].made
    /\ mviews' = [mviews EXCEPT ![v] = [made |-> TRUE, labels |-> kwargs,
                                        own |-> ZeroCell]]
    /\ UNCHANGED << relayVars, cancelled, regVars, restVars, mkind, mparent, mlabeled, mlock, tpc,
                    top, serial, history, mops >>

\* A thread calls inc, dec, set or observe on the metric or on a view.
MBegin(t, op, target, arg) ==
    /\ tpc[t] = "idle"
    /\ mops < MaxMetricOps
    /\ tpc' = [tpc EXCEPT ![t] = "acquire"]
    /\ top' = [top EXCEPT ![t] = [op |-> op, target |-> target, arg |-> arg,
                                  tmp |-> 0, res |-> NoResult]]
    /\ mops' = mops + 1
    /\ UNCHANGED << relayVars, cancelled, regVars, restVars, mkind, mparent, mlabeled, mviews,
                    mlock, serial, history >>

\* `with self._lock:` is entered.  From here the method takes effect, so it is
\* applied as a whole to the serial copy of the cell.
MAcquire(t) ==
    LET id  == CellOf(top[t].target)
        new == Apply(top[t].op, top[t].arg, SerialGet(id)) IN
    /\ tpc[t] = "acquire"
    /\ LockAvailable(t)
    /\ mlock' = t
    /\ serial' = [i \in DOMAIN serial \cup {id} |-> IF i = id THEN new ELSE serial[i]]
    /\ history' = history \cup {[cell |-> id, count |-> new.count, sum |-> new.sum]}
    /\ tpc' = [tpc EXCEPT ![t] =
                  CASE top[t].op = "observe" -> "count"
                    [] top[t].op = "set" -> "write"
                    [] OTHER -> "read"]
    /\ UNCHANGED << relayVars, cancelled, regVars, restVars, mkind, mparent, mlabeled, mviews, top,
                    mops >>

\* inc / dec: the right-hand side reads the cell ...
MRead(t) ==
    /\ tpc[t] = "read"
    /\ top' = [top EXCEPT ![t].tmp = GetCell(CellOf(top[t].target)).value]
    /\ tpc' = [tpc EXCEPT ![t] = "write"]
    /\ UNCHANGED << relayVars, cancelled, regVars, restVars, mkind, mparent, mlabeled, mviews,
                    mlock, serial, history, mops >>

\* ... and the assignment stores the new value; set stores its argument.
MWrite(t) ==
    LET id == CellOf(top[t].target)
        v  == CASE top[t].op = "inc" -> top[t].tmp + top[t].arg
                [] top[t].op = "dec" -> top[t].tmp - top[t].arg
                [] OTHER -> top[t].arg IN
    /\ tpc[t] = "write"
    /\ PutCell(id, [GetCell(id) EXCEPT !.value = v])
    /\ tpc' = [tpc EXCEPT ![t] = "release"]
    /\ UNCHANGED << relayVars, cancelled, regVars, restVars, mkind, mlock, top, serial, history,
                    mops >>

\* observe: the count goes up by one (on a view, after setdefault) ...
MObserveCount(t) ==
    LET id == CellOf(top[t].target) IN
    /\ tpc[t] = "count"
    /\ PutCell(id, [GetCell(id) EXCEPT !.count = @ + 1])
    /\ tpc' = [tpc EXCEPT ![t] = "sum"]
    /\ UNCHANGED << relayVars, cancelled, regVars, restVars, mkind, mlock, top, serial, history,
                    mops >>

\* ... and then the sum by the observed value.
MObserveSum(t) ==
    LET id == CellOf(top[t].target) IN
    /\ tpc[t] = "sum"
    /\ PutCell(id, [GetCell(id) EXCEPT !.sum = @ + top[t].arg])
    /\ tpc' = [tpc EXCEPT ![t] = "release"]
    /\ UNCHANGED << relayVars, cancelled, regVars, restVars, mkind, mlock, top, serial, history,
                    mops >>

\* The with block is left.
MRelease(t) ==
    /\ tpc[t] = "release"
    /\ mlock' = "free"
    /\ tpc' = [tpc EXCEPT ![t] = "idle"]
    /\ UNCHANGED << relayVars, cancelled, regVars, restVars, mkind, mparent, mlabeled, mviews, top,
                    serial, history, mops >>

\* A thread calls get_stats on the histogram or on a view; no lock is taken.
GetStatsBegin(t, target) ==
    /\ mkind = "histogram"
    /\ tpc[t] = "idle"
    /\ mops < MaxMetricOps
    /\ tpc' = [tpc EXCEPT ![t] = "readcount"]
    /\ top' = [top EXCEPT ![t] = [op |-> "get_stats", target |-> target,
                                  arg |-> 0, tmp |-> 0, res |-> NoResult]]
    /\ mops' = mops + 1
    /\ UNCHANGED << relayVars, cancelled, regVars, restVars, mkind, mparent, mlabeled, mviews,
                    mlock, serial, history >>

\* The count is read: self._count, or "count" of the stats dict of the key.  A
\* key that is not in the dict yields the default {"count": 0, "sum": 0.0}.
GetStatsCount(t) ==
    LET id == CellOf(top[t].target) IN
    /\ tpc[t] = "readcount"
    /\ IF id.where = "labeled" /\ id.key \notin DOMAIN mlabeled
       THEN /\ top' = [top EXCEPT ![t].res = [present |-> TRUE, count |-> 0, sum |-> 0]]
            /\ tpc' = [tpc EXCEPT ![t] = "idle"]
       ELSE /\ top' = [top EXCEPT ![t].tmp = GetCell(id).count]
            /\ tpc' = [tpc EXCEPT ![t] = "readsum"]
    /\ UNCHANGED << relayVars, cancelled, regVars, restVars, mkind, mparent, mlabeled, mviews,
                    mlock, serial, history, mops >>

\* The sum is read, which completes the reported statistics.
GetStatsSum(t) ==
    LET id == CellOf(top[t].target) IN
    /\ tpc[t] = "readsum"
    /\ top' = [top EXCEPT ![t].res = [present |-> TRUE, count |-> top[t].tmp,
                                      sum |-> GetCell(id).sum]]
    /\ tpc' = [tpc EXCEPT ![t] = "idle"]
    /\ UNCHANGED << relayVars, cancelled, regVars, restVars, mkind, mparent, mlabeled, mviews,
                    mlock, serial, history, mops >>

NextMetrics ==
    \/ \E v \in ViewNames, kwargs \in KwargsChoices : MLabels(v, kwargs)
    \/ \E t \in Threads, target \in Receivers :
          \E op \in Mutators(mkind) : \E arg \in ArgsOf(op) :
             MBegin(t, op, target, arg)
    \/ \E t \in Threads : MAcquire(t)
    \/ \E t \in Threads : MRead(t)
    \/ \E t \in Threads : MWrite(t)
    \/ \E t \in Threads : MObserveCount(t)
    \/ \E t \in Threads : MObserveSum(t)
    \/ \E t \in Threads : MRelease(t)
    \/ \E t \in Threads, target \in Receivers : GetStatsBegin(t, target)
    \/ \E t \in Threads : GetStatsCount(t)
    \/ \E t \in Threads : GetStatsSum(t)

SpecMetrics == InitMetrics /\ [][NextMetrics]_vars

\* ------------------------------ get_stats / get_all results and later calls
InitSnapshot == InitMetrics

\* One entry of a returned dict: the cell it showed when it was returned, and
\* whether the entry is the stats dict stored in _labeled_stats (shared) or a
\* value of its own.
Entry(cell, shared) == [cell |-> cell, shared |-> shared]

NoEntry == [cell |-> ZeroCell, shared |-> FALSE]

\* inc / dec / set / observe on the metric or on a view, as a whole.
SMutate(op, target, arg) ==
    LET id == CellOf(target) IN
    /\ sops < MaxSnapshotOps
    /\ PutCell(id, Apply(op, arg, GetCell(id)))
    /\ sops' = sops + 1
    /\ UNCHANGED << relayVars, cancelled, regVars, notifyVars, webhookVars,
                    globalVars, mkind, mlock, tpc, top, serial, history, mops,
                    results >>

\* Histogram.get_stats: on a view, `self._labeled_stats.get(key, default)`
\* hands out the stored stats dict of the key, or a new default dict if the
\* key is not there; on a receiver without labels a new dict is built from
\* _count and _sum.
SGetStats(target) ==
    LET id == CellOf(target)
        shared == id.where = "labeled" /\ id.key \in DOMAIN mlabeled
        result == [call |-> "get_stats", at |-> sops,
                   unlabeled |-> IF id.where = "own" THEN Entry(GetCell(id), FALSE)
                                 ELSE NoEntry,
                   labeled |-> IF id.where = "labeled"
                               THEN [k \in {id.key} |-> Entry(GetCell(id), shared)]
                               ELSE [k \in {} |-> NoEntry]] IN
    /\ mkind = "histogram"
    /\ sops < MaxSnapshotOps
    /\ results' = results \cup {result}
    /\ sops' = sops + 1
    /\ UNCHANGED << relayVars, cancelled, regVars, notifyVars, webhookVars,
                    globalVars, metricVars >>

\* MetricsRegistry.get_all -> to_dict of the metric: "value" (or "count" and
\* "sum") are read from the metric's fields, and labeled_values is a new dict
\* {str(dict(k)): v for k, v in items()}: v is the float of a Counter or
\* Gauge, and the stored stats dict itself of a Histogram.
SGetAll ==
    LET result == [call |-> "get_all", at |-> sops,
                   unlabeled |-> Entry(mparent, FALSE),
                   labeled |-> [k \in DOMAIN mlabeled |->
                                   Entry(mlabeled[k], mkind = "histogram")]] IN
    /\ sops < MaxSnapshotOps
    /\ results' = results \cup {result}
    /\ sops' = sops + 1
    /\ UNCHANGED << relayVars, cancelled, regVars, notifyVars, webhookVars,
                    globalVars, metricVars >>

NextSnapshot ==
    \/ \E v \in ViewNames, kwargs \in KwargsChoices : MLabels(v, kwargs)
    \/ \E target \in Receivers :
          \E op \in Mutators(mkind) : \E arg \in ArgsOf(op) :
             SMutate(op, target, arg)
    \/ \E target \in Receivers : SGetStats(target)
    \/ SGetAll

SpecSnapshot == InitSnapshot /\ [][NextSnapshot]_vars

\* ---------------------------------- the factory methods of MetricsRegistry
InitRegistry ==
    /\ RelayFresh
    /\ mkind = "counter"
    /\ MetricsIdle
    /\ RegistryIdle
    /\ RestIdle

\* Variant: the factory methods take no lock.
RLockAvailable_noLock == TRUE

\* `with self._lock:` of the registry is entered only when its Lock is free.
RLockAvailable == rlock = "free"

\* A thread calls counter / gauge / histogram (name, description).
RBegin(t, kind, name, description) ==
    /\ rpc[t] = "idle"
    /\ rops < MaxRegistryOps
    /\ rcall' = [rcall EXCEPT ![t] = [kind |-> kind, name |-> name,
                                      description |-> description, metric |-> 0,
                                      result |-> "none"]]
    /\ rpc' = [rpc EXCEPT ![t] = "acquire"]
    /\ rops' = rops + 1
    /\ UNCHANGED << relayVars, cancelled, metricVars, restVars, rmetrics, robjs, rlock,
                    returned >>

RAcquire(t) ==
    /\ rpc[t] = "acquire"
    /\ RLockAvailable
    /\ rlock' = t
    /\ rpc' = [rpc EXCEPT ![t] = "check"]
    /\ UNCHANGED << relayVars, cancelled, metricVars, restVars, rmetrics, robjs, rcall,
                    returned, rops >>

\* if name not in self._metrics
RCheck(t) ==
    /\ rpc[t] = "check"
    /\ rpc' = [rpc EXCEPT ![t] =
                  IF rcall[t].name \in DOMAIN rmetrics THEN "fetch" ELSE "create"]
    /\ UNCHANGED << relayVars, cancelled, metricVars, restVars, rmetrics, robjs, rlock,
                    rcall, returned, rops >>

\* self._metrics[name] = Counter(name, description): a new object at zero.
NewObject(t) ==
    [kind |-> rcall[t].kind, name |-> rcall[t].name,
     description |-> rcall[t].description, value |-> 0]

Register(t) ==
    LET id == Cardinality(DOMAIN robjs) + 1 IN
    /\ robjs' = [i \in DOMAIN robjs \cup {id} |->
                   IF i = id THEN NewObject(t) ELSE robjs[i]]
    /\ rmetrics' = [n \in DOMAIN rmetrics \cup {rcall[t].name} |->
                      IF n = rcall[t].name THEN id ELSE rmetrics[n]]

RCreate(t) ==
    /\ rpc[t] = "create"
    /\ Register(t)
    /\ rpc' = [rpc EXCEPT ![t] = "fetch"]
    /\ UNCHANGED << relayVars, cancelled, metricVars, restVars, rlock, rcall, returned,
                    rops >>

\* metric = self._metrics[name]
RFetch(t) ==
    /\ rpc[t] = "fetch"
    /\ rcall' = [rcall EXCEPT ![t].metric = rmetrics[rcall[t].name]]
    /\ rpc' = [rpc EXCEPT ![t] = "decide"]
    /\ UNCHANGED << relayVars, cancelled, metricVars, restVars, rmetrics, robjs, rlock,
                    returned, rops >>

\* Variant: a request of another kind replaces the registered metric.
RRaiseTypeError_replaces(t) ==
    /\ rpc[t] = "decide"
    /\ robjs[rcall[t].metric].kind # rcall[t].kind
    /\ Register(t)
    /\ rcall' = [rcall EXCEPT ![t].result = "returned",
                              ![t].metric = Cardinality(DOMAIN robjs) + 1]
    /\ rlock' = "free"
    /\ rpc' = [rpc EXCEPT ![t] = "idle"]
    /\ UNCHANGED << relayVars, cancelled, metricVars, restVars, returned, rops >>

\* if not isinstance(metric, Counter): raise TypeError; the with block is left.
RRaiseTypeError(t) ==
    /\ rpc[t] = "decide"
    /\ robjs[rcall[t].metric].kind # rcall[t].kind
    /\ rcall' = [rcall EXCEPT ![t].result = "TypeError"]
    /\ rlock' = "free"
    /\ rpc' = [rpc EXCEPT ![t] = "idle"]
    /\ UNCHANGED << relayVars, cancelled, metricVars, restVars, rmetrics, robjs, returned,
                    rops >>

\* return metric; the with block is left.
RReturn(t) ==
    /\ rpc[t] = "decide"
    /\ robjs[rcall[t].metric].kind = rcall[t].kind
    /\ rcall' = [rcall EXCEPT ![t].result = "returned"]
    /\ returned' = returned \cup {[name |-> rcall[t].name, kind |-> rcall[t].kind,
                                    description |-> rcall[t].description,
                                    metric |-> rcall[t].metric]}
    /\ rlock' = "free"
    /\ rpc' = [rpc EXCEPT ![t] = "idle"]
    /\ UNCHANGED << relayVars, cancelled, metricVars, restVars, rmetrics, robjs, rops >>

\* The caller increments through the object it was handed.
RInc(t) ==
    /\ rpc[t] = "idle"
    /\ rcall[t].result = "returned"
    /\ rops < MaxRegistryOps
    /\ robjs' = [robjs EXCEPT ![rcall[t].metric].value = @ + 1]
    /\ rops' = rops + 1
    /\ UNCHANGED << relayVars, cancelled, metricVars, restVars, rmetrics, rlock, rpc,
                    rcall, returned >>

NextRegistry ==
    \/ \E t \in Threads, kind \in MetricKinds, name \in Names,
          description \in Descriptions : RBegin(t, kind, name, description)
    \/ \E t \in Threads : RAcquire(t)
    \/ \E t \in Threads : RCheck(t)
    \/ \E t \in Threads : RCreate(t)
    \/ \E t \in Threads : RFetch(t)
    \/ \E t \in Threads : RRaiseTypeError(t)
    \/ \E t \in Threads : RReturn(t)
    \/ \E t \in Threads : RInc(t)

SpecRegistry == InitRegistry /\ [][NextRegistry]_vars

\* ------------------------------------------------ POST /api/notify, by step
outsideNotify == << relayVars, cancelled, metricVars, regVars, webhookVars,
                   globalVars, snapVars >>

InitNotify ==
    /\ RelayFresh
    /\ mkind = "counter"
    /\ MetricsIdle
    /\ RegistryIdle
    /\ ncfg \in NotifyConfigs
    /\ NotifyFresh
    /\ WebhookIdle
    /\ GlobalIdle
    /\ SnapIdle

\* Variant: only None counts as a missing channel.
NotificationsChannelMissing_isNone == ncfg.notifications_channel_id = NoneValue

\* `if not channel_id` in SlackNotifier.send_notification
NotificationsChannelMissing == Falsy(ncfg.notifications_channel_id)

\* Variant: the cached id is not consulted.
NeedsLookup_uncached == ~Falsy(ncfg.opladmins_group_handle)

\* _get_usergroup_mention reaches `await self.client.usergroups_list()`: a
\* handle is configured and no id is cached.
NeedsLookup == ~Falsy(ncfg.opladmins_group_handle) /\ Falsy(usergroup_id)

\* Variant: every record is written as sent.
HistoryStatus_alwaysSent(success) == "sent"

\* status of the history record: SENT if slack_result.success else FAILED
HistoryStatus(success) == IF success THEN "sent" ELSE "failed"

\* NotificationHistory.create: id from uuid4(), created_at from the clock.
HistoryCreate(result, at) ==
    [present |-> TRUE, id |-> ncalls + 1, status |-> HistoryStatus(result.success),
     error_message |-> IF result.success THEN NoneValue ELSE result.error,
     created_at |-> at]

\* Variant: a request whose record could not be saved is reported as failed.
ResultSuccess_needsSave(delivered, saved) == delivered /\ saved = "ok"

\* NotificationResult.success = slack_result.success
ResultSuccess(delivered, saved) == delivered

StatusLabel(status) == << <<"status", status>> >>

\* Variant: the id is reported only for a record that was saved.
ResultNotificationId_ifSaved(record, saved) ==
    IF saved = "ok" THEN record.id ELSE 0

\* NotificationResult.notification_id = history.id
ResultNotificationId(record, saved) == record.id

\* handle_notify answers 401 or 400 before the service is called.
NotifyRejected(req) ==
    LET status == NotifyScreen(req) IN
    /\ npc = "idle"
    /\ ncalls < MaxNotifyCalls
    /\ status # "accepted"
    /\ notify_counter' = CounterInc(notify_counter, StatusLabel(status))
    /\ nresponse' = [present |-> TRUE, code |-> ScreenCode(status),
                     status |-> "error", error |-> status]
    /\ nposts' = 0
    /\ nlookups' = 0
    /\ slack_result' = NoSlackResult
    /\ nrecord' = NoRecord
    /\ nsaves' = <<>>
    /\ save_outcome' = "none"
    /\ nresult' = NoNotificationResult
    /\ first_post_at' = 0
    /\ now' = now + 1
    /\ ncalls' = ncalls + 1
    /\ nkey' = [seen |-> TRUE, key |-> req.api_key]
    /\ UNCHANGED << outsideNotify, ncfg, npc, usergroup_id, stored,
                    usergroups_list_calls >>

\* The request passes the checks; NotificationService.send_notification runs
\* up to its first await.  Without a channel the notifier returns at once and
\* the service goes on to `await save_notification(history)`.
NotifyBegin(req) ==
    LET failed == [present |-> TRUE, success |-> FALSE, channel |-> NoneValue,
                   ts |-> NoneValue, error |-> NOT_CONFIGURED] IN
    /\ npc = "idle"
    /\ ncalls < MaxNotifyCalls
    /\ NotifyScreen(req) = "accepted"
    /\ nkey' = [seen |-> TRUE, key |-> req.api_key]
    /\ now' = now + 1
    /\ save_outcome' = "none"
    /\ nresult' = NoNotificationResult
    /\ nresponse' = NoHttpResponse
    /\ IF NotificationsChannelMissing
       THEN /\ slack_result' = failed
            /\ nrecord' = HistoryCreate(failed, now')
            /\ nsaves' = << HistoryCreate(failed, now') >>
            /\ npc' = "saving"
            /\ nposts' = 0
            /\ nlookups' = 0
            /\ first_post_at' = 0
            /\ UNCHANGED usergroups_list_calls
       ELSE /\ slack_result' = NoSlackResult
            /\ nrecord' = NoRecord
            /\ nsaves' = <<>>
            /\ IF NeedsLookup
               THEN /\ npc' = "lookup"
                    /\ nlookups' = 1
                    /\ usergroups_list_calls' = usergroups_list_calls + 1
                    /\ nposts' = 0
                    /\ first_post_at' = 0
               ELSE /\ npc' = "posting"
                    /\ nlookups' = 0
                    /\ UNCHANGED usergroups_list_calls
                    /\ nposts' = 1
                    /\ first_post_at' = now'
    /\ UNCHANGED << outsideNotify, ncfg, usergroup_id, stored, notify_counter,
                    ncalls >>

\* usergroups_list returns or raises; every outcome yields a mention and the
\* notifier goes on to `await self.client.chat_postMessage(...)`.
LookupReturns(how) ==
    /\ npc = "lookup"
    /\ usergroup_id' = IF how = "found" THEN "S0123" ELSE usergroup_id
    /\ npc' = "posting"
    /\ nposts' = nposts + 1
    /\ now' = now + 1
    /\ first_post_at' = now'
    /\ UNCHANGED << outsideNotify, ncfg, nlookups, usergroups_list_calls, nkey,
                    slack_result, nrecord, nsaves,
                    stored, save_outcome, nresult, nresponse, notify_counter,
                    ncalls >>

\* chat_postMessage returns or raises: the notifier returns its result, the
\* service makes the history record and awaits save_notification.
PostReturns(how) ==
    LET result == IF how = "ok"
                  THEN [present |-> TRUE, success |-> TRUE,
                        channel |-> ncfg.notifications_channel_id,
                        ts |-> "1700000000.000100", error |-> NoneValue]
                  ELSE [present |-> TRUE, success |-> FALSE,
                        channel |-> ncfg.notifications_channel_id,
                        ts |-> NoneValue, error |-> how] IN
    /\ npc = "posting"
    /\ now' = now + 1
    /\ slack_result' = result
    /\ nrecord' = HistoryCreate(result, now')
    /\ nsaves' = Append(nsaves, HistoryCreate(result, now'))
    /\ npc' = "saving"
    /\ UNCHANGED << outsideNotify, ncfg, usergroup_id, nposts, nlookups,
                    usergroups_list_calls, nkey, stored,
                    save_outcome, nresult, nresponse, notify_counter,
                    first_post_at, ncalls >>

\* save_notification returns or raises (the exception is logged and dropped);
\* the service returns its NotificationResult and handle_notify answers.
SaveReturns(how) ==
    LET success == ResultSuccess(slack_result.success, how) IN
    /\ npc = "saving"
    /\ now' = now + 1
    /\ save_outcome' = how
    /\ stored' = IF how = "ok" THEN stored \cup {nrecord.id} ELSE stored
    /\ nresult' = [present |-> TRUE, success |-> success,
                   notification_id |-> ResultNotificationId(nrecord, how),
                   timestamp |-> nrecord.created_at, error |-> slack_result.error]
    /\ nresponse' = IF success
                    THEN [present |-> TRUE, code |-> 200, status |-> "sent",
                          error |-> NoneValue]
                    ELSE [present |-> TRUE, code |-> 500, status |-> "failed",
                          error |-> slack_result.error]
    /\ notify_counter' = CounterInc(notify_counter,
                             StatusLabel(IF success THEN "success" ELSE "send_failed"))
    /\ npc' = "idle"
    /\ ncalls' = ncalls + 1
    /\ UNCHANGED << outsideNotify, ncfg, usergroup_id, nposts, nlookups,
                    usergroups_list_calls, nkey, slack_result, nrecord, nsaves, first_post_at >>

NextNotify ==
    \/ \E req \in NotifyRequests : NotifyRejected(req)
    \/ \E req \in NotifyRequests : NotifyBegin(req)
    \/ \E how \in LookupOutcomes : LookupReturns(how)
    \/ \E how \in PostOutcomes : PostReturns(how)
    \/ \E how \in SaveOutcomes : SaveReturns(how)

SpecNotify == InitNotify /\ [][NextNotify]_vars

\* ------------------------------------------------- POST /webhook, by step
outsideWebhook == << relayVars, cancelled, metricVars, regVars, notifyVars,
                    globalVars, snapVars >>

InitWebhook ==
    /\ RelayFresh
    /\ mkind = "counter"
    /\ MetricsIdle
    /\ RegistryIdle
    /\ ncfg \in NotifyConfigs
    /\ NotifyFresh
    /\ WebhookIdle
    /\ GlobalIdle
    /\ SnapIdle

\* Variant of time(): observe follows the yield without try / finally.
ObservesOnExit_onReturnOnly(how) == how \in {"True", "False"}

\* Histogram.time(): `finally:` runs observe(duration) however the block ends.
ObservesOnExit(how) == TRUE

\* Histogram.observe(value) on the stats of the view's key.
Observe(stats, value) == [count |-> stats.count + 1, sum |-> stats.sum + value]

\* handle_webhook answers 401 or 400 before the relay is called.
WebhookRejected(req) ==
    LET status == WebhookScreen(req) IN
    /\ wpc = "idle"
    /\ wcalls < MaxWebhookCalls
    /\ status # "accepted"
    /\ webhook_counter' = CounterInc(webhook_counter, StatusLabel(status))
    /\ wresponse' = [present |-> TRUE, code |-> ScreenCode(status),
                     status |-> "error", error |-> status]
    /\ wdelivered' = "none"
    /\ wcalls' = wcalls + 1
    /\ wkey' = [seen |-> TRUE, key |-> req.api_key]
    /\ UNCHANGED << outsideWebhook, wpc, wclock, wstart, relay_latency, wentered,
                    wexits >>

\* The request passes the checks: the timed block is entered (start is read
\* from the clock) and relay_webhook is awaited.
WebhookBegin(req) ==
    /\ wpc = "idle"
    /\ wcalls < MaxWebhookCalls
    /\ WebhookScreen(req) = "accepted"
    /\ wkey' = [seen |-> TRUE, key |-> req.api_key]
    /\ wstart' = wclock
    /\ wpc' = "relaying"
    /\ wentered' = wentered + 1
    /\ wdelivered' = "none"
    /\ wresponse' = NoHttpResponse
    /\ UNCHANGED << outsideWebhook, wclock, relay_latency, webhook_counter,
                    wexits, wcalls >>

\* relay_webhook ends after `elapsed` ticks: the timed block is left, then the
\* request counter is incremented and {"status": "ok"} is answered.  An
\* exception leaves handle_webhook after the block's finally clause; the web
\* server answers 500 for it, and a cancelled task answers nothing.
RelayWebhookEnds(how, elapsed) ==
    /\ wpc = "relaying"
    /\ wclock' = wclock + elapsed
    /\ relay_latency' = IF ObservesOnExit(how)
                        THEN Observe(relay_latency, wclock' - wstart)
                        ELSE relay_latency
    /\ wexits' = Append(wexits, how)
    /\ wdelivered' = how
    /\ webhook_counter' =
          CASE how = "True" -> CounterInc(webhook_counter, StatusLabel("success"))
            [] how = "False" -> CounterInc(webhook_counter, StatusLabel("relay_failed"))
            [] OTHER -> webhook_counter
    /\ wresponse' =
          CASE how \in {"True", "False"} ->
                  [present |-> TRUE, code |-> 200, status |-> "ok", error |-> NoneValue]
            [] how = "ValueError" ->
                  [present |-> TRUE, code |-> 500, status |-> "error", error |-> how]
            [] OTHER -> NoHttpResponse
    /\ wpc' = "idle"
    /\ wcalls' = wcalls + 1
    /\ UNCHANGED << outsideWebhook, wstart, wentered, wkey >>

NextWebhook ==
    \/ \E req \in WebhookRequests : WebhookRejected(req)
    \/ \E req \in WebhookRequests : WebhookBegin(req)
    \/ \E how \in RelayOutcomes, elapsed \in Durations : RelayWebhookEnds(how, elapsed)

SpecWebhook == InitWebhook /\ [][NextWebhook]_vars

\* ------------------------------------ both routes of the one application
\* Largest number of requests, over both routes, received in one behaviour.
MaxHandlerRequests == 2

\* Requests received so far, answered or still being handled.
RequestsReceived ==
    ncalls + wcalls + (IF npc = "idle" THEN 0 ELSE 1)
                    + (IF wpc = "idle" THEN 0 ELSE 1)

InitHandlers == InitNotify /\ InitWebhook

\* The event loop runs the two handlers' coroutines; a request of one route
\* may arrive while a request of the other is suspended at an await.
NextHandlers ==
    \/ /\ RequestsReceived < MaxHandlerRequests
       /\ \E req \in NotifyRequests : NotifyRejected(req)
    \/ /\ RequestsReceived < MaxHandlerRequests
       /\ \E req \in NotifyRequests : NotifyBegin(req)
    \/ \E how \in LookupOutcomes : LookupReturns(how)
    \/ \E how \in PostOutcomes : PostReturns(how)
    \/ \E how \in SaveOutcomes : SaveReturns(how)
    \/ /\ RequestsReceived < MaxHandlerRequests
       /\ \E req \in WebhookRequests : WebhookRejected(req)
    \/ /\ RequestsReceived < MaxHandlerRequests
       /\ \E req \in WebhookRequests : WebhookBegin(req)
    \/ \E how \in RelayOutcomes, elapsed \in Durations : RelayWebhookEnds(how, elapsed)

SpecHandlers == InitHandlers /\ [][NextHandlers]_vars

\* ---------------------------------------- get_metrics and reset_metrics
outsideGlobal == << relayVars, cancelled, metricVars, regVars, notifyVars,
                   webhookVars, snapVars >>

InitGlobal ==
    /\ RelayFresh
    /\ mkind = "counter"
    /\ MetricsIdle
    /\ RegistryIdle
    /\ NotifyIdle
    /\ WebhookIdle
    /\ GlobalIdle
    /\ SnapIdle

\* A thread calls get_metrics().
GetMetricsBegin(t) ==
    /\ gpc[t] = "idle"
    /\ gops < MaxGlobalOps
    /\ gpc' = [gpc EXCEPT ![t] = "check"]
    /\ gbegan' = [gbegan EXCEPT ![t] = gresets]
    /\ gops' = gops + 1
    /\ UNCHANGED << outsideGlobal, metrics_registry, ghanded, gresets, gmade >>

\* if _metrics_registry is None
GetMetricsCheck(t) ==
    /\ gpc[t] = "check"
    /\ gpc' = [gpc EXCEPT ![t] = IF metrics_registry = 0 THEN "create" ELSE "return"]
    /\ UNCHANGED << outsideGlobal, metrics_registry, gbegan, ghanded, gresets,
                    gmade, gops >>

\* _metrics_registry = MetricsRegistry()
GetMetricsCreate(t) ==
    /\ gpc[t] = "create"
    /\ gmade' = gmade + 1
    /\ metrics_registry' = gmade'
    /\ gpc' = [gpc EXCEPT ![t] = "return"]
    /\ UNCHANGED << outsideGlobal, gbegan, ghanded, gresets, gops >>

\* return _metrics_registry
GetMetricsReturn(t) ==
    /\ gpc[t] = "return"
    /\ ghanded' = ghanded \cup {[began |-> gbegan[t], ended |-> gresets,
                                  registry |-> metrics_registry]}
    /\ gpc' = [gpc EXCEPT ![t] = "idle"]
    /\ UNCHANGED << outsideGlobal, metrics_registry, gbegan, gresets, gmade,
                    gops >>

\* reset_metrics(): _metrics_registry = None
ResetMetrics(t) ==
    /\ gpc[t] = "idle"
    /\ gops < MaxGlobalOps
    /\ metrics_registry' = 0
    /\ gresets' = gresets + 1
    /\ gops' = gops + 1
    /\ UNCHANGED << outsideGlobal, gpc, gbegan, ghanded, gmade >>

NextGlobal ==
    \/ \E t \in Threads : GetMetricsBegin(t)
    \/ \E t \in Threads : GetMetricsCheck(t)
    \/ \E t \in Threads : GetMetricsCreate(t)
    \/ \E t \in Threads : GetMetricsReturn(t)
    \/ \E t \in Threads : ResetMetrics(t)

SpecGlobal == InitGlobal /\ [][NextGlobal]_vars

\* ------------------------------------------------------------------- claims
Last(seq) == seq[Len(seq)]

FailedWith(codes) ==
    ~lastResponse.ok /\ lastResponse.hasError /\ lastResponse.error \in codes

\* C1: a send makes at most max_retries + 1 attempts, and a send whose every
\* attempt failed with a retryable code has made exactly max_retries + 1
\* attempts and has returned False.
C1_RetryableAttempts ==
    /\ calls <= config.max_retries + 1
    /\ (pc = "done" /\ calls >= 1 /\ retryableFailures = calls)
          => (calls = config.max_retries + 1 /\ outcome = "False")

\* C2: once an attempt has failed with a code of NON_RETRYABLE_ERRORS, at any
\* attempt index, the send is over with False, nothing is in flight and no wait
\* is pending; when that was the first response there was one attempt, no wait.
C2_FatalStops ==
    FailedWith(NON_RETRYABLE_ERRORS) =>
        /\ pc = "done"
        /\ outcome = "False"
        /\ inflight = 0
        /\ timers = 0
        /\ calls = retryableFailures + 1
        /\ Len(sleeps) = retryableFailures
        /\ (retryableFailures = 0 => calls = 1 /\ sleeps = <<>>)

C2_Witness ==
    /\ FailedWith({"token_revoked"})
    /\ pc = "done"
    /\ calls = 3
    /\ outcome = "False"

\* C3: a failure whose code is in neither set, or that carries no code, ends
\* the send with False at that attempt: no wait is started, no attempt follows.
C3_UnknownIsFatal ==
    (~lastResponse.ok /\ lastResponse # NoResponse
        /\ (~lastResponse.hasError
              \/ lastResponse.error \notin RETRYABLE_ERRORS \cup NON_RETRYABLE_ERRORS))
    => /\ pc = "done"
       /\ outcome = "False"
       /\ inflight = 0
       /\ timers = 0
       /\ Len(sleeps) = calls - 1
       /\ calls = retryableFailures + 1

C3_Witness ==
    /\ pc = "done"
    /\ ~lastResponse.ok
    /\ lastResponse # NoResponse
    /\ ~lastResponse.hasError
    /\ calls = 1
    /\ config.max_retries = 3
    /\ outcome = "False"

\* C4: when chat_postMessage returns after k retryable failures, the send
\* returns True having made exactly k + 1 attempts and k waits, and nothing
\* is dispatched or pending afterwards.
C4_SuccessAfterRetries ==
    lastResponse.ok =>
        /\ pc = "done"
        /\ outcome = "True"
        /\ retryableFailures <= config.max_retries
        /\ calls = retryableFailures + 1
        /\ Len(sleeps) = retryableFailures
        /\ inflight = 0
        /\ timers = 0

C4_Witness ==
    /\ lastResponse.ok
    /\ retryableFailures = 2
    /\ calls = 3
    /\ Len(sleeps) = 2
    /\ outcome = "True"

\* C5: while no failure of the send carried a Retry-After header, the i-th
\* wait is retry_base_delay * 2^(i-1); there are never more than max_retries
\* waits, and a send that failed on every attempt has made exactly
\* max_retries of them, none after the last attempt.
C5_ExponentialDelays ==
    ~hintSeen =>
        /\ \A i \in DOMAIN sleeps : sleeps[i] = config.retry_base_delay * 2 ^ (i - 1)
        /\ \A i \in DOMAIN sleeps : i > 1 => sleeps[i] = 2 * sleeps[i - 1]
        /\ Len(sleeps) <= config.max_retries
        /\ (pc = "done" /\ calls >= 1 /\ retryableFailures = calls)
              => (Len(sleeps) = config.max_retries /\ timers = 0
                    /\ calls = Len(sleeps) + 1)

C5_Witness ==
    /\ pc = "done"
    /\ ~hintSeen
    /\ retryableFailures = calls
    /\ config.retry_base_delay = 100
    /\ sleeps = <<100, 200, 400>>

\* C6: the wait that follows a rate_limited failure carrying a Retry-After of
\* h whole seconds is h seconds, whatever the attempt index.
C6_RetryAfterWins ==
    (pc = "sleeping" /\ FailedWith({"rate_limited"}) /\ lastResponse.retryAfter.present)
    => /\ lastResponse.retryAfter.text = <<"5">> => Last(sleeps) = 5000
       /\ lastResponse.retryAfter.text = <<" ", "5">> => Last(sleeps) = 5000
       /\ lastResponse.retryAfter.text = <<"0">> => Last(sleeps) = 0

C6_Witness ==
    /\ pc = "sleeping"
    /\ attempt = 2
    /\ FailedWith({"rate_limited"})
    /\ lastResponse.retryAfter = [present |-> TRUE, text |-> <<"5">>]
    /\ config.retry_base_delay = 1000
    /\ Last(sleeps) = 5000

\* C7: with relay_channel_id None or empty, the send is over at once with
\* False: chat_postMessage is never invoked and asyncio.sleep never called.
C7_NoChannelNoAttempt ==
    config.relay_channel_id \in {NoneValue, ""} =>
        /\ pc \in {"idle", "done"}
        /\ calls = 0
        /\ inflight = 0
        /\ sleeps = <<>>
        /\ timers = 0
        /\ (pc = "done" => outcome = "False")

C7_Witness ==
    /\ config.relay_channel_id = ""
    /\ config.max_retries = 3
    /\ pc = "done"
    /\ outcome = "False"
    /\ calls = 0

\* C8: a send that is over has ended in Delivered (True) or Failed (False)
\* after at most max_retries + 1 attempts.
C8_EndsDeliveredOrFailed ==
    pc = "done" =>
        /\ outcome \in {"True", "False"}
        /\ calls <= config.max_retries + 1

\* C9: attempts are sequential: at most one chat_postMessage is in flight,
\* never together with a pending wait, and while attempt number `calls` is in
\* flight all calls - 1 earlier attempts have returned and each was followed
\* by a wait that has elapsed.
C9_SequentialAttempts ==
    /\ inflight + timers <= 1
    /\ inflight = 1 <=> pc = "calling"
    /\ timers = 1 <=> pc = "sleeping"
    /\ pc = "calling" =>
          /\ retryableFailures = calls - 1
          /\ Len(sleeps) = calls - 1
          /\ attempt = calls - 1

C9_Witness ==
    /\ pc = "calling"
    /\ calls = 3
    /\ inflight = 1
    /\ Len(sleeps) = 2

\* C10: no exception leaves relay_dm / relay_webhook for a remote failure:
\* every send that is over has returned True or False.
C10_NeverRaises == outcome # "ValueError"

\* The value relay_dm / relay_webhook hand back is the bare bool `success`:
\* the caller can read no error code from it.
ReturnedErrorCode == NoneValue

\* All max_retries + 1 attempts were made, each failed with a retryable code,
\* and the call returned False.
Exhausted ==
    /\ pc = "done"
    /\ outcome = "False"
    /\ calls = config.max_retries + 1
    /\ retryableFailures = calls

C12_CancelDuringBackoff ==
    cancelled = "sleeping" =>
        /\ pc = "done"
        /\ outcome = "CancelledError"
        /\ timers = 0
        /\ inflight = 0
        /\ calls = Len(sleeps)
        /\ relay_counter = EmptyCells

C12_Witness ==
    /\ cancelled = "sleeping"
    /\ pc = "done"
    /\ calls = 2
    /\ Len(sleeps) = 2
    /\ outcome = "CancelledError"

\* No thread is between entering a with block and finishing its writes.
Quiescent == \A t \in Threads : tpc[t] \notin {"read", "write", "count", "sum"}

\* C13: no update of concurrent inc / dec / set / observe calls is lost: when
\* no call is in the middle of its writes, every cell holds what the calls
\* that took effect give when applied one after the other.
C13_NoLostUpdate ==
    Quiescent => \A id \in DOMAIN serial : GetCell(id) = serial[id]

\* Two calls through different receivers of one cell: the first has written and
\* still holds the lock, the second waits to enter.
C13_Witness ==
    /\ tpc["t1"] = "release"
    /\ tpc["t2"] = "acquire"
    /\ top["t1"].target # top["t2"].target
    /\ CellOf(top["t1"].target) = CellOf(top["t2"].target)
    /\ GetCell(CellOf(top["t1"].target)) # ZeroCell

\* What a receiver reports: the value property, or the numbers of get_stats.
ValueOf(target) == GetCell(CellOf(target))

\* A label set: the key/value pairs of the keyword arguments, in no order.
PairSet(kwargs) == { kwargs[i] : i \in 1..Len(kwargs) }

MadeViews == { v \in ViewNames : mviews[v].made }

\* labeled_values of the metric's to_dict(), which get_all() returns: one
\* entry per key of the shared dict.
GetAllEntries == mlabeled

\* C14: every view made by labels(...) shares the metric's storage: all views
\* with one label set report the same accumulated value, and get_all() shows
\* that value for the label set.
C14_ViewsShareStorage ==
    \A v \in MadeViews :
       /\ \A w \in MadeViews :
             PairSet(mviews[v].labels) = PairSet(mviews[w].labels)
                 => ValueOf(v) = ValueOf(w)
       /\ ValueOf(v) # ZeroCell =>
             \E k \in DOMAIN GetAllEntries :
                /\ PairSet(k) = PairSet(mviews[v].labels)
                /\ GetAllEntries[k] = ValueOf(v)

\* Thread t stores into a cell in this step.
Stores(t) == tpc[t] \in {"write", "count", "sum"} /\ tpc'[t] # tpc[t]

\* C15: a mutation through a receiver with one label set never changes what a
\* view with a different label set reports, and the mutated value is in the
\* metric's get_all() entry under the receiver's own key.
C15_ViewsIsolated ==
    [][\A t \in Threads : Stores(t) =>
         /\ \A w \in MadeViews :
               PairSet(LabelsOf(w)) # PairSet(LabelsOf(top[t].target))
                   => ValueOf(w)' = ValueOf(w)
         /\ LabelsOf(top[t].target) # <<>> =>
               /\ SortedItems(LabelsOf(top[t].target)) \in DOMAIN GetAllEntries'
               /\ GetAllEntries'[SortedItems(LabelsOf(top[t].target))]
                      = ValueOf(top[t].target)']_vars

\* Two views with different label sets have been mutated: each reports its own
\* value and both are entries of get_all().
C15_Witness ==
    /\ \A t \in Threads : tpc[t] = "idle"
    /\ mviews["v1"].made /\ mviews["v2"].made
    /\ PairSet(mviews["v1"].labels) # PairSet(mviews["v2"].labels)
    /\ mviews["v1"].labels # <<>> /\ mviews["v2"].labels # <<>>
    /\ Cardinality(DOMAIN GetAllEntries) = 2
    /\ ValueOf("v1") # ZeroCell
    /\ ValueOf("v2") # ZeroCell
    /\ ValueOf("v1") # ValueOf("v2")

\* Views made with at least one label: `if self._labels` holds for them.
LabeledViews == { v \in MadeViews : mviews[v].labels # <<>> }

C19_CounterNeverDecreases ==
    [][mkind = "counter" =>
         /\ mparent'.value >= mparent.value
         /\ \A v \in MadeViews : mviews'[v].own.value >= mviews[v].own.value
         /\ \A k \in DOMAIN mlabeled' :
               mlabeled'[k].value >=
                  (IF k \in DOMAIN mlabeled THEN mlabeled[k].value ELSE 0)]_vars

\* The count and sum a finished get_stats call reported.
Reported(t) == [cell |-> CellOf(top[t].target), count |-> top[t].res.count,
                sum |-> top[t].res.sum]

\* C20: the count and sum that get_stats reports belong to one set of completed
\* observations: they are the zeros of a fresh cell or the numbers the cell
\* had after some observation took effect.
C20_StatsAreSnapshot ==
    \A t \in Threads :
       top[t].res.present =>
          \/ top[t].res.count = 0 /\ top[t].res.sum = 0
          \/ Reported(t) \in history

\* C16: calls of one factory method with one name, in sequence or in parallel
\* and whatever the description, hand out the same object: one object exists
\* for the name, so an increment through any of them is read through all.
C16_SameNameSameInstance ==
    /\ \A a \in returned, b \in returned :
          a.name = b.name /\ a.kind = b.kind =>
             /\ a.metric = b.metric
             /\ robjs[a.metric].value = robjs[b.metric].value
    /\ \A n \in Names :
          Cardinality({ i \in DOMAIN robjs : robjs[i].name = n }) <= 1

\* Both threads asked for the same name with different descriptions, got an
\* object, and an increment has been made.
C16_Witness ==
    /\ \A t \in Threads : rpc[t] = "idle" /\ rcall[t].result = "returned"
    /\ rcall["t1"].name = rcall["t2"].name
    /\ rcall["t1"].description # rcall["t2"].description
    /\ rcall["t1"].metric = rcall["t2"].metric
    /\ robjs[rcall["t1"].metric].value = 1

\* The name thread t asks for is registered with another kind.
KindMismatch(t) ==
    /\ rcall[t].name \in DOMAIN rmetrics
    /\ robjs[rmetrics[rcall[t].name]].kind # rcall[t].kind

\* C17: a request for a name that is registered with a different kind ends in
\* TypeError, and no step of it changes the registry: the names, the objects,
\* their kinds and their values stay as they were.
C17_WrongKindIsError ==
    [][\A t \in Threads :
         (rpc[t] # "idle" /\ rpc'[t] # rpc[t] /\ KindMismatch(t)) =>
            /\ rmetrics' = rmetrics
            /\ robjs' = robjs
            /\ rpc'[t] = "idle" => rcall'[t].result = "TypeError"]_vars

\* counter("x") was incremented, then gauge("x") was refused.
C17_Witness ==
    /\ rpc["t2"] = "idle"
    /\ rcall["t2"].result = "TypeError"
    /\ rcall["t2"].name = "x"
    /\ DOMAIN rmetrics = {"x"}
    /\ robjs[rmetrics["x"]].kind = "counter"
    /\ robjs[rmetrics["x"]].value = 1

\* C22: when saving the history record fails, send_notification still returns
\* a result whose success is the delivery's success, and the request is
\* answered accordingly: nothing of the save failure reaches the caller.
C22_SaveFailureSwallowed ==
    (npc = "idle" /\ save_outcome = "raises") =>
        /\ nresult.present
        /\ nresult.success = slack_result.success
        /\ nresponse.present
        /\ (nresponse.code = 200) = slack_result.success

\* A delivered notification whose record could not be saved is reported sent.
C22_Witness ==
    /\ npc = "idle"
    /\ save_outcome = "raises"
    /\ slack_result.success
    /\ nresult.success
    /\ nresponse.status = "sent"
    /\ nrecord.id \notin stored

\* C23: a send_notification call makes exactly one save_notification call,
\* none before the delivery outcome is known, with status sent exactly when
\* the delivery succeeded and with the delivery's error text when it failed;
\* a missing channel is such a failure.
C23_OnePersistenceAttempt ==
    /\ npc \in {"lookup", "posting"} => nsaves = <<>>
    /\ slack_result.present =>
          /\ Len(nsaves) = 1
          /\ (nsaves[1].status = "sent") = slack_result.success
          /\ nsaves[1].status \in {"sent", "failed"}
          /\ nsaves[1].error_message =
                 (IF slack_result.success THEN NoneValue ELSE slack_result.error)
    /\ nresult.present => Len(nsaves) = 1

\* The channel is not configured and the failure has been handed to the store.
C23_Witness ==
    /\ npc = "idle"
    /\ nresult.present
    /\ slack_result.error = NOT_CONFIGURED
    /\ Len(nsaves) = 1
    /\ nsaves[1].status = "failed"
    /\ nsaves[1].error_message = NOT_CONFIGURED
    /\ nsaves[1].id \in stored

\* C24: the notification's identifier and timestamp are generated before the
\* delivery attempt is made.
C24_IdBeforeDelivery ==
    (nrecord.present /\ nposts > 0) => nrecord.created_at < first_post_at

\* C25: a notification post that fails with a retryable code is followed by a
\* further attempt (while retries remain), and one that fails with any other
\* code ends after exactly one attempt.
C25_NotifyRetries ==
    (slack_result.present /\ ~slack_result.success /\ nposts > 0) =>
        IF slack_result.error \in RETRYABLE_ERRORS /\ config.max_retries > 0
        THEN nposts >= 2
        ELSE nposts = 1

\* C30: without a notifications channel the notifier returns success = false
\* with the 'not configured' error and calls neither usergroups_list nor
\* chat_postMessage.
C30_NoChannelFailsFast ==
    ncfg.notifications_channel_id \in {NoneValue, ""} =>
        /\ npc \notin {"lookup", "posting"}
        /\ nposts = 0
        /\ nlookups = 0
        /\ slack_result.present =>
              /\ ~slack_result.success
              /\ slack_result.error = NOT_CONFIGURED

\* An empty channel id with a group handle configured: the request has been
\* answered as failed.
C30_Witness ==
    /\ ncfg.notifications_channel_id = ""
    /\ ncfg.opladmins_group_handle = "opladmins"
    /\ npc = "idle"
    /\ nresult.present
    /\ ~nresult.success
    /\ nresult.error = NOT_CONFIGURED
    /\ nresponse.code = 500

\* C21: time() records exactly one observation for each timed block, when the
\* block is left and however it is left, and none while the block runs: the
\* histogram's count is the number of blocks left so far.
C21_OneObservationPerBlock ==
    /\ relay_latency.count = Len(wexits)
    /\ wentered = Len(wexits) + (IF wpc = "relaying" THEN 1 ELSE 0)

\* One block was left by cancellation and one by a raised ValueError; a third
\* request would be the next.
C21_Witness ==
    /\ wpc = "idle"
    /\ Len(wexits) = 2
    /\ "CancelledError" \in {wexits[1], wexits[2]}
    /\ "ValueError" \in {wexits[1], wexits[2]}
    /\ relay_latency.count = 2
    /\ relay_latency.sum > 2

\* C26: a request that passed authentication and validation is answered, and
\* the answer reports success exactly when the delivery succeeded.
C26_ResponseReportsDelivery ==
    (wpc = "idle" /\ wdelivered # "none") =>
        /\ wresponse.present
        /\ (wresponse.status = "ok") = (wdelivered = "True")

\* A get_metrics call that began and returned with no reset in between.
WithinResets(call) == call.began = call.ended

\* C28: between two resets every get_metrics call returns the same registry,
\* also when the first calls run at the same time in several threads.
C28_OneRegistry ==
    \A a \in ghanded, b \in ghanded :
       (WithinResets(a) /\ WithinResets(b) /\ a.began = b.began)
           => a.registry = b.registry

\* Counter.to_dict / Gauge.to_dict / Histogram.to_dict of the metric, as
\* get_all() returns it under the metric's name: the type, the unlabeled
\* value(s) and, if the shared dict is not empty, labeled_values.
ToDict ==
    [type |-> mkind, unlabeled |-> mparent,
     has_labeled_values |-> DOMAIN mlabeled # {}, labeled_values |-> mlabeled]

\* C27: the metric's get_all() record has, for every labeled view that
\* exists, an entry under the view's label set that gives the view's value.
C27_GetAllListsViews ==
    /\ ToDict.type \in MetricKinds
    /\ \A v \in LabeledViews :
          /\ ToDict.has_labeled_values
          /\ SortedItems(mviews[v].labels) \in DOMAIN ToDict.labeled_values
          /\ ToDict.labeled_values[SortedItems(mviews[v].labels)] = ValueOf(v)

\* C29: while the relay task is suspended in chat_postMessage or in
\* asyncio.sleep it holds no lock, neither the registry's nor a metric's.
C29_NoLockAcrossSuspension ==
    pc \in {"calling", "sleeping"} => held = {}

\* The task is suspended in the backoff wait right after a locked increment
\* of relay_retries_total, and in a second network call after such a wait.
C29_Witness ==
    /\ pc = "calling"
    /\ attempt >= 1
    /\ retry_counter # EmptyCells
    /\ sleeps # <<>>

\* C31: once a lookup has stored the usergroup id, no later step of the
\* notifier calls usergroups_list: the number of lookups no longer grows.
C31_LookupCached ==
    [][~Falsy(usergroup_id) => usergroups_list_calls' = usergroups_list_calls]_vars

\* A later request reaches chat_postMessage with the cached id, having made
\* no lookup of its own.
C31_Witness ==
    /\ ~Falsy(usergroup_id)
    /\ ncalls >= 1
    /\ npc = "posting"
    /\ nlookups = 0
    /\ usergroups_list_calls = 1

\* The header is missing, differs from the configured key, or no key is
\* configured at all.
KeyRefused(key) ==
    \/ key = NoneValue
    \/ key # ncfg.webhook_api_key
    \/ ncfg.webhook_api_key \in {NoneValue, ""}

\* C32: a request to /api/notify or /webhook whose X-API-Key is missing or is
\* not the configured key is answered 401 and starts neither a notification
\* nor a relay; with no key configured every request is refused this way.
C32_BadKeyRejected ==
    /\ (nkey.seen /\ KeyRefused(nkey.key)) =>
          /\ nresponse.present /\ nresponse.code = 401
          /\ npc = "idle"
          /\ nposts = 0 /\ nlookups = 0 /\ nsaves = <<>> /\ nrecord = NoRecord
    /\ (wkey.seen /\ KeyRefused(wkey.key)) =>
          /\ wresponse.present /\ wresponse.code = 401
          /\ wpc = "idle"
          /\ wdelivered = "none"

\* With no key configured, a notify request without the header and a webhook
\* request with some key have both been answered.
C32_Witness ==
    /\ ncfg.webhook_api_key = NoneValue
    /\ nkey = [seen |-> TRUE, key |-> NoneValue]
    /\ wkey = [seen |-> TRUE, key |-> "wrong"]
    /\ nresponse.present
    /\ wresponse.present

\* The whole seconds a Retry-After text stands for, for the texts that do.
HintSeconds(text) ==
    CASE text = <<"0">> -> 0
      [] text = <<"5">> -> 5
      [] text = <<" ", "5">> -> 5

\* C33: the wait that follows failed attempt i is the server's hint only if
\* the code is rate_limited and the header carries a value; in every other
\* case (rate_limited without a hint, another retryable code with a header)
\* it is retry_base_delay * 2^i, i being the index of the attempt in the
\* send, whatever the earlier waits were.
C33_HintOnlyForRateLimited ==
    pc = "sleeping" =>
        IF /\ FailedWith({"rate_limited"})
           /\ lastResponse.retryAfter.present
           /\ lastResponse.retryAfter.text # <<>>
        THEN Last(sleeps) = 1000 * HintSeconds(lastResponse.retryAfter.text)
        ELSE Last(sleeps) = config.retry_base_delay * 2 ^ attempt

\* After a first wait taken from the hint, the second wait follows a
\* service_unavailable failure that carries a header and is exponential in
\* the attempt index 1.
C33_Witness ==
    /\ pc = "sleeping"
    /\ attempt = 1
    /\ FailedWith({"service_unavailable"})
    /\ lastResponse.retryAfter.present
    /\ config.retry_base_delay = 100
    /\ sleeps = <<5000, 200>>

\* The sum of a counter's labeled values.
RECURSIVE SumOver(_, _)
SumOver(cells, keys) ==
    IF keys = {} THEN 0
    ELSE LET k == CHOOSE key \in keys : TRUE
         IN  cells[k] + SumOver(cells, keys \ {k})

CounterTotal(cells) == SumOver(cells, DOMAIN cells)

\* C34: the retry increments of a send are as many as its backoff waits, and
\* for a send that is over they are its attempts minus one: the final attempt
\* never counts as a retry.
C34_RetriesAreAttemptsMinusOne ==
    /\ CounterTotal(retry_counter) = Len(sleeps)
    /\ (pc = "done" /\ calls >= 1) => CounterTotal(retry_counter) = calls - 1

\* C34 (amended): relay_retries_total is incremented once, just before each
\* backoff wait begins, so the increments always equal the waits begun; they
\* are the attempts minus one while an attempt is in flight and when the
\* send has returned or raised, and equal the attempts during a wait and
\* when the send was cancelled in a wait.
C34_RetriesMatchWaits ==
    /\ CounterTotal(retry_counter) = Len(sleeps)
    /\ pc = "calling" => CounterTotal(retry_counter) = calls - 1
    /\ pc = "sleeping" => CounterTotal(retry_counter) = calls
    /\ (pc = "done" /\ calls >= 1) =>
          CounterTotal(retry_counter) =
              IF cancelled = "sleeping" THEN calls ELSE calls - 1

\* A send cancelled in its second wait: two attempts, two increments.
C34_Witness ==
    /\ pc = "done"
    /\ cancelled = "sleeping"
    /\ calls = 2
    /\ CounterTotal(retry_counter) = 2
    /\ Len(sleeps) = 2

\* C35: a send that returns False has incremented relay_errors_total exactly
\* once, under no_channel (no code of the remote API) when the channel is not
\* configured and under the code of its last attempt otherwise; before the
\* send is over and when it returns True the counter is untouched; without a
\* channel relay_retries_total is untouched.
C35_OneErrorPerFailure ==
    /\ "no_channel" \notin ErrorCodes \cup {"unknown"}
    /\ (pc = "done" /\ outcome = "False") =>
          /\ CounterTotal(error_counter) = 1
          /\ DOMAIN error_counter =
                { ErrorKey(source,
                           IF config.relay_channel_id \in {NoneValue, ""}
                           THEN "no_channel"
                           ELSE IF lastResponse.hasError THEN lastResponse.error
                           ELSE "unknown") }
    /\ (pc # "done" \/ outcome = "True") => error_counter = EmptyCells
    /\ config.relay_channel_id \in {NoneValue, ""} => retry_counter = EmptyCells

\* A webhook relay without a channel has returned False.
C35_Witness ==
    /\ config.relay_channel_id = NoneValue
    /\ source = "webhook"
    /\ pc = "done"
    /\ outcome = "False"
    /\ error_counter[ErrorKey("webhook", "no_channel")] = 1

\* C36: a relay_dm / relay_webhook call that has returned has incremented
\* messages_relayed_total exactly once, under its own source and under
\* status success for True and failed for False, however many attempts it
\* made; a call that is not over, or that ended by an exception or by
\* cancellation, has not incremented it.
C36_OneRelayCountPerReturn ==
    /\ (pc = "done" /\ outcome \in {"True", "False"}) =>
          /\ DOMAIN relay_counter =
                { StatusKey(source, IF outcome = "True" THEN "success" ELSE "failed") }
          /\ CounterTotal(relay_counter) = 1
    /\ (pc = "done" /\ outcome \in {"ValueError", "CancelledError"}) =>
          relay_counter = EmptyCells
    /\ pc # "done" => relay_counter = EmptyCells

\* A webhook relay that succeeded on its third attempt.
C36_Witness ==
    /\ pc = "done"
    /\ outcome = "True"
    /\ source = "webhook"
    /\ calls = 3
    /\ relay_counter[StatusKey("webhook", "success")] = 1

\* C37: the notification_id of the NotificationResult is the id of the one
\* record handed to save_notification, and it is there whether the delivery
\* succeeded or failed and whether the save succeeded or raised.
C37_ResultIdIsRecordId ==
    nresult.present =>
        /\ Len(nsaves) = 1
        /\ nsaves[1].present
        /\ nsaves[1].id >= 1
        /\ nresult.notification_id = nsaves[1].id
        /\ save_outcome = "ok" => nresult.notification_id \in stored

\* The delivery failed and the save raised; the result still has the id.
C37_Witness ==
    /\ nresult.present
    /\ ~slack_result.success
    /\ save_outcome = "raises"
    /\ nposts = 1
    /\ nresult.notification_id = nrecord.id

\* C38: the unlabeled value is a cell of its own: a step of a call made
\* through a labeled view leaves the metric's unlabeled value(s) as they
\* were, and a step of a call made on the metric itself leaves every labeled
\* value as it was.
C38_UnlabeledIsSeparate ==
    [][\A t \in Threads :
          tpc'[t] # tpc[t] =>
             /\ LabelsOf(top[t].target) # <<>> => mparent' = mparent
             /\ top[t].target = "metric" => mlabeled' = mlabeled
             /\ mlabeled' # mlabeled => mparent' = mparent]_vars

\* The metric and one of its labeled views have both been written, to
\* different values.
C38_Witness ==
    /\ Quiescent
    /\ mparent # ZeroCell
    /\ \E v \in LabeledViews :
          /\ ValueOf(v) # ZeroCell
          /\ ValueOf(v) # mparent
          /\ ToDict.unlabeled = mparent

\* What an entry of a kept result holds now: a shared stats dict shows the
\* metric's current numbers, a value of its own what it was given.
HeldNow(entry, key) == IF entry.shared THEN mlabeled[key] ELSE entry.cell

\* C39: a result returned by get_stats() or get_all() keeps the values it was
\* returned with, unlabeled and labeled alike, whatever is called on the
\* metric or its views afterwards.
C39_ResultsAreSnapshots ==
    \A r \in results :
       \A k \in DOMAIN r.labeled : HeldNow(r.labeled[k], k) = r.labeled[k].cell

====
